---------------------------- MODULE Spec2Model ----------------------------
(***************************************************************************)
(* repomons: monitor threads hand encoded messages to a single-threaded    *)
(* tokio event loop (src/run.rs), which merges them through one mpsc       *)
(* channel and fans each one out to the outbound queue of every registered *)
(* TCP connection; every connection has its own socket_writer task.        *)
(*                                                                         *)
(* Spec         : run() of src/run.rs with its monitor_repo threads.       *)
(* SpecTick     : one thread running monitor() of src/branch.rs, every ref *)
(*                read from the whole commit universe.                     *)
(* SpecSiblings : two threads running monitor() of src/branch.rs in one    *)
(*                repository, every ref at the same commit.                *)
(* SpecStartup  : the startup of one monitor() thread, for every interval. *)
(* SpecIdle     : one monitor() thread on a repository nobody commits to.  *)
(* SpecSpawn    : the spawn loop of run() over branch_map, then the        *)
(*                monitor_repo threads and the merge channel.              *)
(* SpecServe    : run() serving its connections while one monitor_repo     *)
(*                thread publishes.                                        *)
(* SpecWrite    : SpecServe with sockets that take a message in pieces.    *)
(* SpecLive     : SpecServe with a fair event loop.                        *)
(* SpecOpen     : the startup of two monitor() threads whose repositories  *)
(*                have different base directories.                         *)
(* SpecFormat   : to_percent and bytes_to_string of src/callbacks.rs, one  *)
(*                call per behaviour.                                      *)
(***************************************************************************)
EXTENDS Integers, Sequences, FiniteSets, TLC

\* ----------------------------------------------------------------- bounds
\* connections accepted in one run
MaxConns == 2
\* messages the monitor threads hand off in one run, all together
MaxMsgs == 2
\* ticks of the one monitor() thread of SpecTick
MaxTicks == 1
\* ticks of each monitor() thread of SpecSiblings
MaxSiblingTicks == 2
\* ticks of the monitor() thread of SpecIdle
MaxIdleTicks == 2
\* the largest poll interval (ms) of SpecStartup
MaxInterval == 10

\* the monitor threads (one per entry of branch_map) and the peer addresses
Monitors == {"m1", "m2"}
Addrs == {"a1", "a2"}

ConnIds == 1..MaxConns
\* the value of a registry slot that holds no sender
NoConn == 0

VARIABLES
    mpc,          \* monitor thread -> position in its code
    ticks,        \* monitor thread -> messages handed off so far
    remoteQ,      \* closures sent with Remote::spawn, not yet run by the core
    mergeQ,       \* the mpsc channel (tx, rx) of run(): items not yet received
    connections,  \* the registry: peer address -> connection whose tx it holds
    nextConn,     \* connections accepted so far + 1
    addrOf,       \* connection -> peer address it was accepted with
    rxOpen,       \* connection -> its socket_writer task (and rx) is alive
    queue,        \* connection -> messages in its unbounded channel
    wr,           \* connection -> the write_all in progress (<<>> or <<msg>>)
    written,      \* connection -> messages written to its socket
    wire,         \* connection -> the bytes its socket has taken so far
    sent,         \* connection -> bytes of the write_all in progress the socket has taken
    sock,         \* connection -> "ok", "broken" (peer gone: writes fail), "closed"
    sendErrors,   \* "Error sending message" lines printed by rx_fut
    handed,       \* history: messages in the order the threads handed them off
    arrived,      \* history: messages in the order they entered mergeQ
    fanned,       \* history: messages in the order rx_fut fanned them out
    handedAt,     \* history: connection -> Len(handed) when it was registered
    regAt,        \* history: connection -> Len(fanned) when it was registered
    active,       \* the threads that run monitor() of branch.rs
    oidSet,       \* ref -> the commit ids it can resolve to in this run
    interval,     \* thread -> config.branch().interval_to_ms()
    branch_map,   \* repository -> its configured branches (branches.branch_map())
    rand_delay,   \* thread -> <<>> or <<the startup delay it drew>>
    hist,         \* history: thread -> what its calls did so far
    tickBound,    \* ticks one monitor() thread starts in one run
    remotesOf,    \* thread -> config.branch().remotes()
    idx,          \* thread -> position of the fetch loop in remotesOf
    local_branch_oid, \* thread -> <<>> or <<oid>>: the local tip of this tick
    remote_oids,  \* thread -> the HashMap "<remote>/<branch>" -> oid of this tick
    remote_messages, \* thread -> the BTreeMap Remote -> message of this tick
    msg_clone,    \* thread -> the Message of this tick
    compared,     \* history: thread -> key -> <<local oid, remote oid>> compared
    exit,         \* thread -> "running" or what ended it
    termAt,       \* history: thread -> Len(handed) when it ended
    repo_config,  \* thread -> the repo::Config monitor() builds (basedir, repo, remotes)
    cwd,          \* the working directory of the process
    repos,        \* the paths <<directory, name>> that hold a repository on disk
    download_output, \* thread -> <<>> or the CallbackOutput of the running download
    fmt           \* the last call of a formatting function of callbacks.rs, with its result

vars == <<mpc, ticks, remoteQ, mergeQ, connections, nextConn, addrOf, rxOpen,
          queue, wr, written, wire, sent, sock, sendErrors, handed, arrived, fanned,
          handedAt, regAt, active, oidSet, interval, branch_map, rand_delay,
          hist, tickBound, remotesOf, idx,
          local_branch_oid, remote_oids, remote_messages, msg_clone, compared,
          exit, termAt, repo_config, cwd, repos, download_output, fmt>>

monVars == <<mpc, ticks>>
connVars == <<connections, nextConn, addrOf, rxOpen, queue, wr, written, wire, sent, sock,
              handedAt, regAt>>
histVars == <<handed, arrived, fanned>>
\* what only monitor() of branch.rs reads and writes
branchVars == <<active, oidSet, interval, rand_delay, hist, tickBound, remotesOf,
                idx, local_branch_oid, remote_oids, remote_messages, msg_clone,
                compared, exit, termAt, repo_config, cwd, repos, download_output, fmt>>
\* what only the event loop reads and writes
loopVars == <<mergeQ, connections, nextConn, addrOf, rxOpen, queue, wr, written, wire, sent,
              sock, sendErrors, arrived, fanned, handedAt, regAt>>

\* ---------------------------------------------------------------- helpers
\* the connections whose sender is in the registry
Registered == {connections[a] : a \in Addrs} \ {NoConn}

\* the connections accepted so far
Accepted == 1..(nextConn - 1)

\* the identity of the message of tick k of monitor thread m
Msg(m, k) == [repo |-> m, seq |-> k]

MsgIds == {Msg(m, k) : m \in Monitors, k \in 1..MaxMsgs}

\* bincode::serialize(&msg_clone, Infinite): the fields in declaration order
serialize(msg) == <<msg.repo, msg.seq>>

\* the message a byte vector encodes
decode(bytes) == [repo |-> bytes[1], seq |-> bytes[2]]

\* HashMap::insert(addr, tx): the slot of addr now holds the new sender
insert(map, a, c) == [map EXCEPT ![a] = c]

\* HashMap::remove(&addr): the slot of addr holds no sender
removeNothing(map, a) == map
remove(map, a) == [map EXCEPT ![a] = NoConn]

\* Remote::spawn: the closure is appended to the core's unbounded message queue
RemoteSpawnLifo(q, f) == <<f>> \o q
RemoteSpawn(q, f) == Append(q, f)

\* Remote::spawn never waits for room in the core's message queue
RemoteSpawnReadyBounded(q) == Len(q) < 1
RemoteSpawnReady(q) == TRUE

\* tx.send(item) on a fresh clone of the merge channel's Sender: the item is
\* pushed at once (every Sender owns one guaranteed slot)
SinkSendLifo(q, item) == <<item>> \o q
SinkSendDropWhenFull(q, item) == IF q # <<>> THEN q ELSE Append(q, item)
SinkSend(q, item) == Append(q, item)

\* mpsc::unbounded(): the queue of a new connection
NewQueueReplay == IF fanned = <<>> THEN <<>> ELSE <<fanned[Len(fanned)]>>
NewQueue == <<>>

\* UnboundedSender::unbounded_send on the sender of connection c: Err when the
\* receiver is gone, else the message is appended
unbounded_send_okWhenIdle(c) == rxOpen[c] /\ wr[c] = <<>>
unbounded_send_ok(c) == rxOpen[c]

\* the connections rx_fut's loop over conns.iter_mut() sends to
FanoutTargetsFirstOnly == IF Registered = {} THEN {} ELSE {CHOOSE c \in Registered : \A d \in Registered : c <= d}
FanoutTargets == Registered

\* the Result item a spawned closure sends into the merge channel
Ok(x) == <<"Ok", x>>

\* --------------------------------------------------------------- Init
LoopInit ==
    /\ ticks = [m \in Monitors |-> 0]
    /\ remoteQ = <<>>
    /\ mergeQ = <<>>
    /\ connections = [a \in Addrs |-> NoConn]
    /\ nextConn = 1
    /\ addrOf = [c \in ConnIds |-> "none"]
    /\ rxOpen = [c \in ConnIds |-> FALSE]
    /\ queue = [c \in ConnIds |-> <<>>]
    /\ wr = [c \in ConnIds |-> <<>>]
    /\ written = [c \in ConnIds |-> <<>>]
    /\ wire = [c \in ConnIds |-> <<>>]
    /\ sent = [c \in ConnIds |-> 0]
    /\ sock = [c \in ConnIds |-> "none"]
    /\ sendErrors = 0
    /\ fanned = <<>>
    /\ arrived = <<>>
    /\ handed = <<>>
    /\ handedAt = [c \in ConnIds |-> 0]
    /\ regAt = [c \in ConnIds |-> 0]

\* nothing called yet: calls of discover_or_clone, startup sleeps taken, the
\* last loop sleep (<<>> or <<ms>>), per remote of the running tick whether
\* the scan of list() saw the branch, download ran, update_tips ran, and of
\* discover_or_clone what Repository::discover returned (<<>> or <<found>>),
\* the clone it tried (<<>> or <<[url, ok]>>) and the path of the repository
\* it returned (<<>> or <<path>>), and the progress report on which a
\* formatting function returned Err (<<>> or <<report>>)
NoHist == [opens |-> 0, delays |-> 0, slept |-> <<>>,
           listed |-> <<>>, downloads |-> {}, tips |-> {},
           discovered |-> <<>>, cloned |-> <<>>, opened |-> <<>>,
           format_error |-> <<>>]

\* the state of the threads of monitor() before any of them has run
BranchInit ==
    /\ idx = [m \in Monitors |-> 0]
    /\ local_branch_oid = [m \in Monitors |-> <<>>]
    /\ remote_oids = [m \in Monitors |-> <<>>]
    /\ remote_messages = [m \in Monitors |-> <<>>]
    /\ msg_clone = [m \in Monitors |-> <<>>]
    /\ compared = [m \in Monitors |-> <<>>]
    /\ exit = [m \in Monitors |-> "running"]
    /\ termAt = [m \in Monitors |-> 0]
    /\ rand_delay = [m \in Monitors |-> <<>>]
    /\ hist = [m \in Monitors |-> NoHist]
    /\ download_output = [m \in Monitors |-> <<>>]

\* run() of run.rs starts no thread of monitor(): none of its locals exists
NoBranchThreads ==
    /\ idx = <<>>
    /\ local_branch_oid = <<>>
    /\ remote_oids = <<>>
    /\ remote_messages = <<>>
    /\ msg_clone = <<>>
    /\ compared = <<>>
    /\ exit = <<>>
    /\ termAt = <<>>
    /\ rand_delay = <<>>
    /\ hist = <<>>
    /\ download_output = <<>>
    /\ repo_config = <<>>
    /\ cwd = "start"
    /\ repos = {}

Init ==
    /\ LoopInit
    /\ NoBranchThreads
    /\ fmt = <<>>
    /\ mpc = [m \in Monitors |-> "loop"]
    /\ active = {}
    /\ oidSet = <<>>
    /\ interval = <<>>
    /\ branch_map = [m \in Monitors |-> <<"main">>]
    /\ tickBound = 0
    /\ remotesOf = <<>>

\* ------------------------------------------------ monitor_repo (thread)
\* one round of monitor_repo's loop: the thread sleeps n ms, then hands the
\* closure holding msg_clone to the core with remote.spawn and goes round
monitor_repo(m) ==
    /\ mpc[m] = "loop"
    /\ Len(handed) < MaxMsgs
    /\ RemoteSpawnReady(remoteQ)
    /\ remoteQ' = RemoteSpawn(remoteQ, Msg(m, ticks[m] + 1))
    /\ ticks' = [ticks EXCEPT ![m] = @ + 1]
    /\ handed' = Append(handed, Msg(m, ticks[m] + 1))
    /\ UNCHANGED <<mpc, mergeQ, sendErrors, fanned, arrived>>
    /\ UNCHANGED connVars
    /\ UNCHANGED branchVars
    /\ UNCHANGED branch_map

\* ------------------------------------------------ the event loop (core.run)
\* the core runs the oldest spawned closure: serialize, then tx.send(Ok(encoded))
spawned_send ==
    /\ remoteQ # <<>>
    /\ LET encoded == serialize(Head(remoteQ))
       IN /\ mergeQ' = SinkSend(mergeQ, Ok(encoded))
          /\ arrived' = Append(arrived, encoded)
    /\ remoteQ' = Tail(remoteQ)
    /\ UNCHANGED <<sendErrors, fanned, handed>>
    /\ UNCHANGED monVars
    /\ UNCHANGED connVars
    /\ UNCHANGED branchVars
    /\ UNCHANGED branch_map

\* rx.for_each(|res| ...): one item of the merge channel is fanned out
rx_fut ==
    /\ mergeQ # <<>>
    /\ LET res == Head(mergeQ)
           repo == res[2]
           targets == FanoutTargets
       IN IF res[1] = "Ok"
          THEN /\ queue' = [c \in ConnIds |->
                              IF c \in targets /\ unbounded_send_ok(c)
                              THEN Append(queue[c], repo)
                              ELSE queue[c]]
               /\ sendErrors' = sendErrors
                                + Cardinality({c \in targets : ~unbounded_send_ok(c)})
               /\ fanned' = Append(fanned, repo)
          ELSE UNCHANGED <<queue, sendErrors, fanned>>
    /\ mergeQ' = Tail(mergeQ)
    /\ UNCHANGED <<remoteQ, arrived, handed>>
    /\ UNCHANGED monVars
    /\ UNCHANGED <<connections, nextConn, addrOf, rxOpen, wr, written, wire, sent, sock, handedAt, regAt>>
    /\ UNCHANGED branchVars
    /\ UNCHANGED branch_map

\* socket.incoming().for_each(|(stream, addr)| ...): a peer connects from addr.
\* The kernel hands over a second connection from one peer address only when
\* the peer of the first is gone.
srv(a) ==
    /\ nextConn <= MaxConns
    /\ \A c \in Accepted : (addrOf[c] = a /\ rxOpen[c]) => sock[c] = "broken"
    /\ LET c == nextConn
       IN /\ connections' = insert(connections, a, c)
          /\ addrOf' = [addrOf EXCEPT ![c] = a]
          /\ rxOpen' = [rxOpen EXCEPT ![c] = TRUE]
          /\ queue' = [queue EXCEPT ![c] = NewQueue]
          /\ sock' = [sock EXCEPT ![c] = "ok"]
          /\ regAt' = [regAt EXCEPT ![c] = Len(fanned)]
          /\ handedAt' = [handedAt EXCEPT ![c] = Len(handed)]
    /\ nextConn' = nextConn + 1
    /\ UNCHANGED <<wr, written, wire, sent, remoteQ, mergeQ, sendErrors>>
    /\ UNCHANGED monVars
    /\ UNCHANGED histVars
    /\ UNCHANGED branchVars
    /\ UNCHANGED branch_map

\* the close handler socket_writer.then(...): the task ends, its rx and its
\* writer are dropped with what they held, and the slot of its address is emptied
close(c) ==
    /\ rxOpen' = [rxOpen EXCEPT ![c] = FALSE]
    /\ wr' = [wr EXCEPT ![c] = <<>>]
    /\ queue' = [queue EXCEPT ![c] = <<>>]
    /\ connections' = remove(connections, addrOf[c])
    /\ written' = [written EXCEPT ![c] = <<>>]
    /\ wire' = [wire EXCEPT ![c] = <<>>]
    /\ sent' = [sent EXCEPT ![c] = 0]
    /\ sock' = [sock EXCEPT ![c] = "closed"]
    /\ addrOf' = [addrOf EXCEPT ![c] = "none"]
    /\ handedAt' = [handedAt EXCEPT ![c] = 0]
    /\ regAt' = [regAt EXCEPT ![c] = 0]

\* rx.fold polls its stream for the next message only when the future its
\* closure returned for the message before (the write_all) has completed
fold_readyAnyTime(c) == TRUE
fold_ready(c) == wr[c] = <<>>

\* rx.fold: the next message of the queue is taken and its write_all starts
fold_next(c) ==
    /\ c \in Accepted /\ rxOpen[c]
    /\ fold_ready(c) /\ queue[c] # <<>>
    /\ wr' = [wr EXCEPT ![c] = <<Head(queue[c])>>]
    /\ queue' = [queue EXCEPT ![c] = Tail(@)]
    /\ UNCHANGED <<connections, nextConn, addrOf, rxOpen, written, wire, sent, sock, handedAt, regAt>>
    /\ UNCHANGED <<remoteQ, mergeQ, sendErrors>>
    /\ UNCHANGED monVars
    /\ UNCHANGED histVars
    /\ UNCHANGED branchVars
    /\ UNCHANGED branch_map

\* write_all(writer, msg) is polled and the socket takes one more byte but
\* not the last: the future stays NotReady
write_some(c) ==
    /\ c \in Accepted /\ rxOpen[c]
    /\ wr[c] # <<>> /\ sock[c] = "ok"
    /\ sent[c] + 1 < Len(wr[c][1])
    /\ wire' = [wire EXCEPT ![c] = Append(@, wr[c][1][sent[c] + 1])]
    /\ sent' = [sent EXCEPT ![c] = @ + 1]
    /\ UNCHANGED <<connections, nextConn, addrOf, rxOpen, queue, wr, written, sock, handedAt, regAt>>
    /\ UNCHANGED <<remoteQ, mergeQ, sendErrors>>
    /\ UNCHANGED monVars
    /\ UNCHANGED histVars
    /\ UNCHANGED branchVars
    /\ UNCHANGED branch_map

\* write_all(writer, msg) completes: the socket takes the rest of the bytes
write_all_ok(c) ==
    /\ c \in Accepted /\ rxOpen[c]
    /\ wr[c] # <<>> /\ sock[c] = "ok"
    /\ written' = [written EXCEPT ![c] = Append(@, wr[c][1])]
    /\ wire' = [wire EXCEPT ![c] = @ \o SubSeq(wr[c][1], sent[c] + 1, Len(wr[c][1]))]
    /\ sent' = [sent EXCEPT ![c] = 0]
    /\ wr' = [wr EXCEPT ![c] = <<>>]
    /\ UNCHANGED <<connections, nextConn, addrOf, rxOpen, queue, sock, handedAt, regAt>>
    /\ UNCHANGED <<remoteQ, mergeQ, sendErrors>>
    /\ UNCHANGED monVars
    /\ UNCHANGED histVars
    /\ UNCHANGED branchVars
    /\ UNCHANGED branch_map

\* write_all(writer, msg) fails: the fold ends with Err and the handler runs
write_all_err(c) ==
    /\ c \in Accepted /\ rxOpen[c]
    /\ wr[c] # <<>> /\ sock[c] = "broken"
    /\ close(c)
    /\ UNCHANGED nextConn
    /\ UNCHANGED <<remoteQ, mergeQ, sendErrors>>
    /\ UNCHANGED monVars
    /\ UNCHANGED histVars
    /\ UNCHANGED branchVars
    /\ UNCHANGED branch_map

\* the stream ends (the sender was dropped and the queue is drained): the fold
\* ends with Ok and the handler runs
stream_end(c) ==
    /\ c \in Accepted /\ rxOpen[c]
    /\ wr[c] = <<>> /\ queue[c] = <<>>
    /\ c \notin Registered
    /\ close(c)
    /\ UNCHANGED nextConn
    /\ UNCHANGED <<remoteQ, mergeQ, sendErrors>>
    /\ UNCHANGED monVars
    /\ UNCHANGED histVars
    /\ UNCHANGED branchVars
    /\ UNCHANGED branch_map

\* environment: the peer of connection c goes away; writes to it fail from now
peer_gone(c) ==
    /\ c \in Accepted /\ rxOpen[c]
    /\ sock[c] = "ok"
    /\ sock' = [sock EXCEPT ![c] = "broken"]
    /\ UNCHANGED <<connections, nextConn, addrOf, rxOpen, queue, wr, written, wire, sent, handedAt, regAt>>
    /\ UNCHANGED <<remoteQ, mergeQ, sendErrors>>
    /\ UNCHANGED monVars
    /\ UNCHANGED histVars
    /\ UNCHANGED branchVars
    /\ UNCHANGED branch_map

Next ==
    \/ \E m \in Monitors : monitor_repo(m)
    \/ spawned_send
    \/ rx_fut
    \/ \E a \in Addrs : srv(a)
    \/ \E c \in ConnIds : fold_next(c)
    \/ \E c \in ConnIds : write_all_ok(c)
    \/ \E c \in ConnIds : write_all_err(c)
    \/ \E c \in ConnIds : stream_end(c)
    \/ \E c \in ConnIds : peer_gone(c)

Spec == Init /\ [][Next]_vars


\* ------------------------------------------------ the spawn loop of run()
\* the configurations branches.branch_map() can hold: repository -> branches
BranchMaps == [Monitors -> {<<"main">>, <<"main", "dev">>, <<"dev", "main">>}]

\* the (repository, branch) pairs of the configuration
Pairs == UNION {{<<r, branch_map[r][i]>> : i \in 1..Len(branch_map[r])} : r \in Monitors}

\* the threads started so far
Spawned == {m \in Monitors : mpc[m] # "unspawned"}

\* the loop over branch_map has ended and core.run(both) has begun
CoreRunning == Spawned = Monitors

\* the pair a monitor_repo thread works on: message.set_repo(repo),
\* message.set_branch(branches[0].clone())
MonitoredPair(m) == <<m, branch_map[m][1]>>

\* one round of `for (repo, branches) in branches.branch_map()`:
\* thread::spawn(move || monitor_repo(&t_repo, &t_branches, &t_tx, &t_remote))
thread_spawn(m) ==
    /\ mpc[m] = "unspawned"
    /\ mpc' = [mpc EXCEPT ![m] = "loop"]
    /\ UNCHANGED <<ticks, remoteQ, mergeQ, sendErrors>>
    /\ UNCHANGED histVars
    /\ UNCHANGED connVars
    /\ UNCHANGED branchVars
    /\ UNCHANGED branch_map

NextSpawn ==
    \/ \E m \in Monitors : thread_spawn(m)
    \/ \E m \in Monitors : monitor_repo(m)
    \/ CoreRunning /\ spawned_send
    \/ CoreRunning /\ rx_fut

InitSpawn ==
    /\ LoopInit
    /\ NoBranchThreads
    /\ fmt = <<>>
    /\ mpc = [m \in Monitors |-> "unspawned"]
    /\ active = {}
    /\ oidSet = <<>>
    /\ interval = <<>>
    /\ branch_map \in BranchMaps
    /\ tickBound = 0
    /\ remotesOf = <<>>

SpecSpawn == InitSpawn /\ [][NextSpawn]_vars

\* ------------------------------------------- run() with one repository
\* the event loop serving the connections while a single thread publishes (the
\* thread of the other repository is never scheduled in these runs)
InitServe ==
    /\ LoopInit
    /\ NoBranchThreads
    /\ fmt = <<>>
    /\ mpc = [m \in Monitors |-> IF m = "m1" THEN "loop" ELSE "idle"]
    /\ active = {}
    /\ oidSet = <<>>
    /\ interval = <<>>
    /\ branch_map = [m \in Monitors |-> <<"main">>]
    /\ tickBound = 0
    /\ remotesOf = <<>>

SpecServe == InitServe /\ [][Next]_vars

\* ------------------------------------- run() with sockets that take bytes
\* the same, with sockets that may take a message in pieces: write_all is
\* polled again until the last byte is taken
NextWrite ==
    \/ Next
    \/ \E c \in ConnIds : write_some(c)

SpecWrite == InitServe /\ [][NextWrite]_vars

\* ------------------------------------ run() under a fair event loop
\* core.run polls every task that was notified: a closure handed over with
\* Remote::spawn is run, and rx_fut is polled while the merge channel holds
\* an item
Fairness == WF_vars(spawned_send) /\ WF_vars(rx_fut)

SpecLive == InitServe /\ [][Next]_vars /\ Fairness

\* ------------------------------------------------ monitor (branch.rs)
\* commits a ref can reach beyond the common base
MaxCommits == 2

Commits == 1..MaxCommits

\* a commit id, named by the set of commits reachable from it
Oids == SUBSET Commits

RemoteNames == {"origin", "upstream"}

BranchNames == {"main", "dev"}

\* config.branch().remotes() as the configuration may give it
RemoteLists == {<<r>> : r \in RemoteNames} \cup {<<r, q>> : r, q \in RemoteNames}

\* config.repo_name(), which monitor() also sets as repo_config's repo
repo_name(m) == repo_config[m].repo

\* a Remote of the configuration
Remote(name, url) == [name |-> name, url |-> url]

\* config.remotes() of the configurations the model runs
RepoRemoteLists == {<<>>,
                    <<Remote("upstream", "u2")>>,
                    <<Remote("origin", "u1")>>,
                    <<Remote("origin", "u1"), Remote("upstream", "u2")>>,
                    <<Remote("upstream", "u2"), Remote("origin", "u1")>>}

\* the threads watch branches of one repository "R" under base directory
\* "b1"; no repository is on disk yet and the process is where it was started
OneRepository ==
    /\ repo_config = [m \in Monitors |->
                         [basedir |-> "b1", repo |-> "R",
                          remotes |-> <<Remote("origin", "u1"), Remote("upstream", "u2")>>]]
    /\ cwd = "start"
    /\ repos = {}

\* config.remotes().iter().filter(|x| x.name() == "origin").last(): <<>> or
\* <<the last remote named origin>>
originOrLast(remotes) == IF remotes = <<>> THEN <<>> ELSE <<remotes[Len(remotes)]>>
origin(remotes) ==
    LET named == SelectSeq(remotes, LAMBDA x : x.name = "origin")
    IN IF named = <<>> THEN <<>> ELSE <<named[Len(named)]>>

\* a relative path, resolved against the working directory at the moment of
\* the call
Resolve(path) == <<cwd, path>>

\* config.branch().name()
branch_name(m) == IF m = "m1" THEN "main" ELSE "dev"

\* the name a remote advertises a branch under: "refs/heads/" + branch_name
remote_branch_name(b) == <<"refs/heads/", b>>

\* remote_name: x.clone() + '/' + branch_name
remote_name(x, b) == <<x, "/", b>>

\* the revision spec of a local branch: its name
local_spec(b) == <<b>>

\* every revision spec get_oid_by_spec is called with
Refs == {local_spec(b) : b \in BranchNames}
        \cup {remote_name(x, b) : x \in RemoteNames, b \in BranchNames}

\* the keys of the HashMap remote_oids: duplicates of the list collapse
RemoteKeys(m) == {remote_name(remotesOf[m][i], branch_name(m)) : i \in 1..Len(remotesOf[m])}

\* repo.graph_ahead_behind(local, remote): commits only local reaches, commits
\* only remote reaches
graph_ahead_behindTotal(local, remote) == <<Cardinality(local), Cardinality(remote)>>
graph_ahead_behind(local, remote) == <<Cardinality(local \ remote), Cardinality(remote \ local)>>

\* the message the loop body builds for one remote
RemoteMessageNoUpToDate(key, ahead, behind) ==
    IF ahead >= 0 /\ behind = 0
    THEN [text |-> "Your branch is ahead of", remote |-> key, n |-> ahead]
    ELSE [text |-> "Your branch is behind", remote |-> key, n |-> behind]
RemoteMessage(key, ahead, behind) ==
    IF ahead > 0 \/ behind > 0
    THEN IF behind > 0
         THEN [text |-> "Your branch is behind", remote |-> key, n |-> behind]
         ELSE [text |-> "Your branch is ahead of", remote |-> key, n |-> ahead]
    ELSE [text |-> "Your branch is up to date with", remote |-> key, n |-> 0]

\* what msg_clone.set_category leaves in the message after one remote
CategoryFor(ahead, behind) ==
    IF ahead > 0 \/ behind > 0
    THEN IF behind > 0 THEN "Behind" ELSE "Ahead"
    ELSE "UpToDate"

\* the local commit id the loop compares a remote with: local_branch_oid is a
\* one-element vector cycled over the remotes; reread is what a fresh
\* get_oid_by_spec would return at that moment
LocalOidReread(m, reread) == reread
LocalOid(m, reread) == local_branch_oid[m][1]

\* the Message handed to the event loop: messages.insert(branch, remote_messages)
EventOf(m) ==
    [repo |-> repo_name(m),
     uuid |-> msg_clone[m].uuid,
     category |-> msg_clone[m].category,
     messages |-> (branch_name(m) :> remote_messages[m])]

\* where the threads are after one of them returned Err or panicked
ExitToProcessExit(m) == [x \in Monitors |-> IF x \in active THEN "terminated" ELSE mpc[x]]
ExitToRetry(m) == [mpc EXCEPT ![m] = "sleep"]
ExitTo(m) == [mpc EXCEPT ![m] = "terminated"]

\* the locals of the loop body go out of scope
DropLocals(m) ==
    /\ idx' = [idx EXCEPT ![m] = 0]
    /\ local_branch_oid' = [local_branch_oid EXCEPT ![m] = <<>>]
    /\ remote_oids' = [remote_oids EXCEPT ![m] = <<>>]
    /\ remote_messages' = [remote_messages EXCEPT ![m] = <<>>]
    /\ msg_clone' = [msg_clone EXCEPT ![m] = <<>>]
    /\ compared' = [compared EXCEPT ![m] = <<>>]

\* monitor() returns Err (a `?`, or the explicit return) or panics (expect)
TerminatePublishing(m, cause) ==
    /\ mpc' = ExitTo(m)
    /\ exit' = [exit EXCEPT ![m] = cause]
    /\ termAt' = [termAt EXCEPT ![m] = Len(handed)]
    /\ DropLocals(m)
    /\ remoteQ' = RemoteSpawn(remoteQ, [repo |-> repo_name(m), uuid |-> <<m, ticks[m] + 1>>,
                                        category |-> "default", messages |-> <<>>])
    /\ handed' = Append(handed, Msg(m, ticks[m] + 1))
    /\ UNCHANGED ticks
Terminate(m, cause) ==
    /\ mpc' = ExitTo(m)
    /\ exit' = [exit EXCEPT ![m] = cause]
    /\ termAt' = [termAt EXCEPT ![m] = Len(handed)]
    /\ DropLocals(m)
    /\ UNCHANGED <<ticks, remoteQ, handed>>

\* a step of the thread that only moves on
Goto(m, pc) ==
    /\ mpc' = [mpc EXCEPT ![m] = pc]
    /\ UNCHANGED <<ticks, remoteQ, handed, idx, local_branch_oid, remote_oids,
                   remote_messages, msg_clone, compared, exit, termAt>>

cfgVars == <<active, oidSet, interval, branch_map, tickBound, remotesOf, repo_config>>

\* the disk and the working directory, shared by every thread of the process
diskVars == <<cwd, repos>>

\* the output record shared with the callbacks of a download
cbVars == <<download_output>>

\* the formatting call under study (no thread of the program reads it)
fmtVars == <<fmt>>

\* Range::new(low, high).ind_sample(rng): a value of [low, high); Range::new
\* panics unless low < high
RangeNewInclusive(low, high) == low..high
RangeNew(low, high) == low..(high - 1)

\* the upper end of the startup delay: (interval * 4) / 5
DelayHigh(m) == (interval[m] * 4) \div 5

\* Uuid::new_v4() of tick k of thread m: a value no other call returns
new_v4Nil(m, k) == <<m, 0>>
new_v4(m, k) == <<m, k>>

\* the scan of git_remote.list() for "refs/heads/<branch>"
valid_branchnameAnyHead(heads, b) == heads # {}
valid_branchname(heads, b) ==
    \E h \in heads : remote_branch_name(h) = remote_branch_name(b)

\* where the fetch loop goes after one remote: the next remote, or on
NextRemoteFirstOnly(m) == "resolve_local"
NextRemote(m) == IF idx[m] < Len(remotesOf[m]) THEN "connect" ELSE "resolve_local"

\* where the thread goes after thread::sleep(interval): round the loop
LoopHeadReopen == "discover"
LoopHead == "tick"

\* config.branch().interval_to_ms()?
interval_to_ms(m) ==
    /\ m \in active /\ mpc[m] = "start"
    /\ \E ok \in BOOLEAN :
          IF ok THEN Goto(m, "delay") ELSE Terminate(m, "interval")
    /\ UNCHANGED <<rand_delay, hist>>
    /\ UNCHANGED cfgVars
    /\ UNCHANGED diskVars
    /\ UNCHANGED loopVars
    /\ UNCHANGED cbVars
    /\ UNCHANGED fmtVars

\* between = Range::new(0, (interval * 4) / 5); rand_delay = a sample of it;
\* thread::sleep(Duration::from_millis(rand_delay))
startup_delay(m) ==
    /\ m \in active /\ mpc[m] = "delay"
    /\ IF 0 < DelayHigh(m)
       THEN \E d \in RangeNew(0, DelayHigh(m)) :
               /\ rand_delay' = [rand_delay EXCEPT ![m] = <<d>>]
               /\ hist' = [hist EXCEPT ![m].delays = @ + 1]
               /\ Goto(m, "discover")
       ELSE Terminate(m, "panic") /\ UNCHANGED <<rand_delay, hist>>
    /\ UNCHANGED cfgVars
    /\ UNCHANGED diskVars
    /\ UNCHANGED loopVars
    /\ UNCHANGED cbVars
    /\ UNCHANGED fmtVars

\* repo::discover_or_clone(&repo_config)? is entered:
\* env::set_current_dir(config.basedir())?
discover_or_clone(m) ==
    /\ m \in active /\ mpc[m] = "discover"
    /\ \E ok \in BOOLEAN :
          IF ok THEN /\ Goto(m, "repository_discover")
                     /\ cwd' = repo_config[m].basedir
          ELSE Terminate(m, "repository") /\ UNCHANGED cwd
    /\ hist' = [hist EXCEPT ![m].opens = @ + 1]
    /\ UNCHANGED <<rand_delay, repos>>
    /\ UNCHANGED cfgVars
    /\ UNCHANGED loopVars
    /\ UNCHANGED cbVars
    /\ UNCHANGED fmtVars

\* match Repository::discover(config.repo()): Ok returns the repository; Err
\* looks the remote "origin" up (ok_or(..)?) and goes on to clone
repository_discover(m) ==
    /\ m \in active /\ mpc[m] = "repository_discover"
    /\ LET path == Resolve(repo_config[m].repo)
           found == path \in repos
       IN /\ IF found
             THEN Goto(m, "check_remotes")
             ELSE IF origin(repo_config[m].remotes) = <<>>
                  THEN Terminate(m, "repository")
                  ELSE Goto(m, "clone")
          /\ hist' = [hist EXCEPT ![m].discovered = <<found>>,
                                  ![m].opened = IF found THEN <<path>> ELSE <<>>]
    /\ UNCHANGED rand_delay
    /\ UNCHANGED cfgVars
    /\ UNCHANGED diskVars
    /\ UNCHANGED loopVars
    /\ UNCHANGED cbVars
    /\ UNCHANGED fmtVars

\* term::stdout(), writeln!, then repo_builder.clone(origin.url(),
\* config.repo()): Ok returns the new repository, every Err is returned
clone(m) ==
    /\ m \in active /\ mpc[m] = "clone"
    /\ LET path == Resolve(repo_config[m].repo)
           url == origin(repo_config[m].remotes)[1].url
       IN \E reachable \in BOOLEAN :
             LET ok == reachable /\ path \notin repos
             IN /\ IF ok THEN Goto(m, "check_remotes") ELSE Terminate(m, "repository")
                /\ repos' = IF ok THEN repos \cup {path} ELSE repos
                /\ hist' = [hist EXCEPT ![m].cloned = <<[url |-> url, ok |-> ok]>>,
                                        ![m].opened = IF ok THEN <<path>> ELSE <<>>]
    /\ UNCHANGED <<rand_delay, cwd>>
    /\ UNCHANGED cfgVars
    /\ UNCHANGED loopVars
    /\ UNCHANGED cbVars
    /\ UNCHANGED fmtVars

\* repo::check_remotes(&repo, &repo_config)?
check_remotes(m) ==
    /\ m \in active /\ mpc[m] = "check_remotes"
    /\ \E ok \in BOOLEAN :
          IF ok THEN Goto(m, "tick") ELSE Terminate(m, "repository")
    /\ UNCHANGED <<rand_delay, hist>>
    /\ UNCHANGED cfgVars
    /\ UNCHANGED diskVars
    /\ UNCHANGED loopVars
    /\ UNCHANGED cbVars
    /\ UNCHANGED fmtVars

\* top of the loop: msg_clone = message.clone(), with a new uuid
tick_start(m) ==
    /\ m \in active /\ mpc[m] = "tick"
    /\ ticks[m] < tickBound
    /\ msg_clone' = [msg_clone EXCEPT ![m] =
                        [repo |-> repo_name(m), uuid |-> new_v4(m, ticks[m] + 1),
                         category |-> "default"]]
    /\ hist' = [hist EXCEPT ![m].slept = <<>>, ![m].listed = <<>>,
                            ![m].downloads = {}, ![m].tips = {}]
    /\ UNCHANGED rand_delay
    /\ idx' = [idx EXCEPT ![m] = 1]
    /\ mpc' = [mpc EXCEPT ![m] = IF remotesOf[m] = <<>> THEN "resolve_local" ELSE "connect"]
    /\ UNCHANGED <<ticks, remoteQ, handed, local_branch_oid, remote_oids,
                   remote_messages, compared, exit, termAt>>
    /\ UNCHANGED cfgVars
    /\ UNCHANGED diskVars
    /\ UNCHANGED loopVars
    /\ UNCHANGED cbVars
    /\ UNCHANGED fmtVars

\* ------------------------------------------------ callbacks.rs
\* An f64 is 0 or a significand of MantissaBits binary digits with the
\* exponent of its first digit. The model keeps the significand with one
\* more digit at the end (the guard digit, 0 in a rounded value), as SigLimbs
\* limbs of LimbBits digits, most significant limb first:
\* value = sig * 2^(exp - MantissaBits).
MantissaBits == 53
LimbBits == 9
LimbBase == 2^LimbBits
SigLimbs == (MantissaBits + 1) \div LimbBits

F64Zero == [zero |-> TRUE, sig |-> <<>>, exp |-> 0]

\* the natural number of a short sequence of limbs
RECURSIVE LimbsInt(_)
LimbsInt(limbs) ==
    IF limbs = <<>> THEN 0
    ELSE LimbBase * LimbsInt(SubSeq(limbs, 1, Len(limbs) - 1)) + limbs[Len(limbs)]

\* the limbs of limbs + 1 (one limb longer when every digit was 1)
RECURSIVE Inc(_)
Inc(limbs) ==
    IF limbs = <<>> THEN <<1>>
    ELSE IF limbs[Len(limbs)] < LimbBase - 1
         THEN [limbs EXCEPT ![Len(limbs)] = @ + 1]
         ELSE Append(Inc(SubSeq(limbs, 1, Len(limbs) - 1)), 0)

\* the number of binary digits of n
RECURSIVE BitLen(_)
BitLen(n) == IF n = 0 THEN 0 ELSE 1 + BitLen(n \div 2)

\* IEEE 754 round to nearest, ties to even: q holds the first MantissaBits + 1
\* digits of the exact value, exp is the exponent of the first of them, sticky
\* says whether the exact value has 1-digits beyond q
F64Round(q, exp, sticky) ==
    LET last == q[SigLimbs]
        guard == last % 2
        odd == (last \div 2) % 2 = 1
        up == guard = 1 /\ (sticky \/ odd)
        inc == Inc(q)
    IN IF ~up THEN [zero |-> FALSE, sig |-> [q EXCEPT ![SigLimbs] = last - guard], exp |-> exp]
       ELSE IF Len(inc) > SigLimbs
            THEN [zero |-> FALSE,
                  sig |-> [i \in 1..SigLimbs |-> IF i = 1 THEN LimbBase \div 2 ELSE 0],
                  exp |-> exp + 1]
            ELSE [zero |-> FALSE, sig |-> inc, exp |-> exp]

\* r/d scaled into [1, 2): <<r2, d2, e>> with r/d = (r2/d2) * 2^e
RECURSIVE Lead(_, _, _)
Lead(r, d, e) ==
    IF r < d THEN Lead(2 * r, d, e - 1)
    ELSE IF r >= 2 * d THEN Lead(r, 2 * d, e + 1)
    ELSE <<r, d, e>>

\* the next n limbs of the digits of r/d (r < d)
RECURSIVE QuotLimbs(_, _, _)
QuotLimbs(r, d, n) ==
    IF n = 0 THEN <<>>
    ELSE <<(r * LimbBase) \div d>> \o QuotLimbs((r * LimbBase) % d, d, n - 1)

\* the remainder of r/d after those n limbs
RECURSIVE QuotRem(_, _, _)
QuotRem(r, d, n) ==
    IF n = 0 THEN r ELSE QuotRem((r * LimbBase) % d, d, n - 1)

\* numerator / denominator of two f64 that hold the integers num and den
\* (f64::from(u32) is exact), den > 0
F64Div(num, den) ==
    IF num = 0 THEN F64Zero
    ELSE LET l == Lead(num, den, 0)
             first == (l[1] * (LimbBase \div 2)) \div l[2]
             rem == (l[1] * (LimbBase \div 2)) % l[2]
         IN F64Round(<<first>> \o QuotLimbs(rem, l[2], SigLimbs - 1), l[3],
                     QuotRem(rem, l[2], SigLimbs - 1) # 0)

\* the limbs of limbs * k + carry, for a factor k below LimbBase
RECURSIVE MulSmall(_, _, _)
MulSmall(limbs, k, carry) ==
    IF limbs = <<>> THEN IF carry = 0 THEN <<>> ELSE <<carry>>
    ELSE Append(MulSmall(SubSeq(limbs, 1, Len(limbs) - 1), k,
                         (limbs[Len(limbs)] * k + carry) \div LimbBase),
                (limbs[Len(limbs)] * k + carry) % LimbBase)

\* x * k for an f64 x and a small integer k (k itself is exact in f64): the
\* exact product is one limb longer, and its first MantissaBits + 1 digits
\* are rounded
F64Mul(x, k) ==
    IF x.zero THEN F64Zero
    ELSE LET p == MulSmall(x.sig, k, 0)
             s == BitLen(p[1])
             q == [i \in 1..SigLimbs |->
                      (p[i] % (2^s)) * (2^(LimbBits - s)) + (p[i + 1] \div (2^s))]
         IN IF Len(p) = SigLimbs THEN x
            ELSE F64Round(q, x.exp + s, p[SigLimbs + 1] % (2^s) # 0)

\* f64::trunc and f64::floor of an f64 that is not negative, as an integer
F64Trunc(x) ==
    IF x.zero \/ x.exp < 0 THEN 0
    ELSE LET k == (x.exp \div LimbBits) + 1
         IN LimbsInt(SubSeq(x.sig, 1, k)) \div (2^(LimbBits * k - 1 - x.exp))

\* format!("{}", n) of an integer-valued number: its decimal digits
DigitChars == <<"0", "1", "2", "3", "4", "5", "6", "7", "8", "9">>
RECURSIVE Digits(_)
Digits(n) ==
    IF n < 10 THEN <<DigitChars[n + 1]>>
    ELSE Append(Digits(n \div 10), DigitChars[(n % 10) + 1])

\* the factor of a percentage, and of two decimals
Hundred == 100

\* to_percent: Ok(format!("{}%", ((numerator / denominator) * 100.).trunc()))
\* or Err("cannot divide by 0"). The model calls it with values below 2^32,
\* which the casts `as u32` keep.
to_percent(num_pre, dem_pre) ==
    IF dem_pre > 0
    THEN LET result == F64Mul(F64Div(num_pre, dem_pre), Hundred)
         IN [ok |-> TRUE, text |-> Append(Digits(F64Trunc(result)), "%")]
    ELSE [ok |-> FALSE, text |-> <<"cannot divide by 0">>]

\* A usize is written in base Radix, most significant limb first and no
\* leading 0 (<<>> is 0): a 64-bit usize has at most UsizeLimbs limbs, the
\* first of them below 16.
Radix == 1024
UsizeLimbs == 7
MaxUnitIdx == 6

\* the loop of bytes_to_max_units: while curr_bytes >= 1024 { curr_bytes /=
\* 1024; rem_pre = curr_bytes % 1024; unit_idx += 1; break at 6 }
RECURSIVE MaxUnitsLoop(_, _, _)
MaxUnitsLoop(curr_bytes, rem_pre, unit_idx) ==
    IF Len(curr_bytes) >= 2
    THEN IF unit_idx + 1 = MaxUnitIdx
         THEN <<unit_idx + 1, SubSeq(curr_bytes, 1, Len(curr_bytes) - 1),
                curr_bytes[Len(curr_bytes) - 1]>>
         ELSE MaxUnitsLoop(SubSeq(curr_bytes, 1, Len(curr_bytes) - 1),
                           curr_bytes[Len(curr_bytes) - 1], unit_idx + 1)
    ELSE <<unit_idx, curr_bytes, rem_pre>>

\* ByteUnits::try_from(idx) is Ok for 0..6
UnitNames == <<" B", " KiB", " MiB", " GiB", " TiB", " PiB", " EiB">>

\* bytes_to_max_units(bytes_pre): [ok, units, curr_bytes, rem_pre]
bytes_to_max_units(bytes_pre) ==
    LET r == MaxUnitsLoop(bytes_pre, 0, 0)
    IN [ok |-> r[1] + 1 \in DOMAIN UnitNames, units |-> r[1],
        curr_bytes |-> IF r[2] = <<>> THEN 0 ELSE r[2][Len(r[2])],
        rem_pre |-> r[3]]

\* format!("{:.2}", h / 100.) for an integer h of hundredths
Fixed2(h) ==
    Digits(h \div Hundred) \o <<".">> \o Digits((h % Hundred) \div 10) \o Digits(h % 10)

\* bytes_to_string: two_decimal_down = (100. * (bytes + rem)).floor() / 100.,
\* printed with "{}" for bytes and "{:.2}" for the larger units. bytes + rem
\* = (1024 * curr_bytes + rem_pre) / 1024 is exact in f64.
bytes_to_string(bytes_pre) ==
    LET u == bytes_to_max_units(bytes_pre)
        sum == F64Div(Radix * u.curr_bytes + u.rem_pre, Radix)
        hundredths == F64Trunc(F64Mul(sum, Hundred))
    IN IF ~u.ok THEN [ok |-> FALSE, text |-> <<"unsupported byte units index">>]
       ELSE [ok |-> TRUE,
             text |-> IF u.units = 0
                      THEN Append(Digits(hundredths \div Hundred), UnitNames[1])
                      ELSE Append(Fixed2(hundredths), UnitNames[u.units + 1])]

\* Result::expect: the thread panics on Err
expect(res) == ~res.ok

\* CallbackOutput::default()
DefaultOutput == [state |-> "Receiving", progress |-> ""]

\* the Progress values libgit2 hands to the transfer_progress callback
MaxProgress == 1
ProgressInfos == [received_objects : 0..MaxProgress, total_objects : 0..MaxProgress,
                  indexed_deltas : 0..MaxProgress, total_deltas : 0..MaxProgress]

\* progress(&mut output, &progress): the output it leaves (of the text only
\* which of the four lines it is), whether a formatting function returned
\* Err, and whether the callback panicked instead of returning true.
\* bytes_to_string(received_bytes) is Ok for every usize and bytes_to_rate for
\* every elapsed time below 2^32 s, so of the three expect("") of a Receiving
\* line only the one on to_percent can fail.
progress(output, info) ==
    LET received_objects == info.received_objects
        total_objects == info.total_objects
        objects == to_percent(received_objects, total_objects)
        deltas == IF info.total_deltas = 0 THEN [ok |-> TRUE, text |-> <<"0", "%">>]
                  ELSE to_percent(info.indexed_deltas, info.total_deltas)
        Returns(out) == [panic |-> FALSE, format_error |-> FALSE, output |-> out]
        Fails(res) == [panic |-> expect(res), format_error |-> ~res.ok, output |-> output]
    IN IF received_objects < total_objects
       THEN IF ~objects.ok THEN Fails(objects)
            ELSE Returns([output EXCEPT !.progress = "Receiving Objects"])
       ELSE IF received_objects = total_objects
            THEN IF output.state = "Receiving"
                 THEN IF ~objects.ok THEN Fails(objects)
                      ELSE Returns([state |-> "Resolving",
                                    progress |-> "Receiving Objects, done."])
                 ELSE IF ~deltas.ok THEN Fails(deltas)
                      ELSE IF info.indexed_deltas < info.total_deltas \/ info.indexed_deltas = 0
                           THEN Returns([output EXCEPT !.progress = "Resolving Deltas"])
                           ELSE Returns([output EXCEPT !.progress = "Resolving Deltas, done."])
            ELSE Returns(output)

\* repo.find_remote(remote)?, callbacks::get_default(..)?, connect_auth(..)?
connect_auth(m) ==
    /\ m \in active /\ mpc[m] = "connect"
    /\ \E ok \in BOOLEAN :
          IF ok THEN Goto(m, "list") ELSE Terminate(m, "fetch")
    /\ UNCHANGED <<rand_delay, hist>>
    /\ UNCHANGED cfgVars
    /\ UNCHANGED diskVars
    /\ UNCHANGED loopVars
    /\ UNCHANGED cbVars
    /\ UNCHANGED fmtVars

\* git_remote.list()? and the scan for "refs/heads/<branch>": heads are the
\* branches the remote advertises now
list(m) ==
    /\ m \in active /\ mpc[m] = "list"
    /\ \E ok \in BOOLEAN, heads \in SUBSET BranchNames :
          IF ~ok THEN Terminate(m, "fetch") /\ UNCHANGED hist
          ELSE /\ hist' = [hist EXCEPT ![m].listed = Append(@, branch_name(m) \in heads)]
               /\ IF valid_branchname(heads, branch_name(m))
                  THEN Goto(m, "download")
                  ELSE Terminate(m, "invalid branch")
    /\ UNCHANGED rand_delay
    /\ UNCHANGED cfgVars
    /\ UNCHANGED diskVars
    /\ UNCHANGED loopVars
    /\ download_output' = [download_output EXCEPT ![m] =
                              IF mpc'[m] = "download" THEN DefaultOutput ELSE <<>>]
    /\ UNCHANGED fmtVars

\* while git_remote.download runs, libgit2 reports the transfer: progress_fn
\* of get_default calls progress(&mut output, &progress_info); a panic of the
\* callback ends the download and is raised again in the thread
transfer_progress(m) ==
    /\ m \in active /\ mpc[m] = "download"
    /\ \E info \in ProgressInfos :
          LET res == progress(download_output[m], info)
          IN /\ IF res.panic
                THEN /\ Terminate(m, "panic")
                     /\ download_output' = [download_output EXCEPT ![m] = <<>>]
                ELSE /\ Goto(m, "download")
                     /\ download_output' = [download_output EXCEPT ![m] = res.output]
             /\ hist' = [hist EXCEPT ![m].format_error =
                                        IF res.format_error THEN <<info>> ELSE @]
    /\ UNCHANGED rand_delay
    /\ UNCHANGED cfgVars
    /\ UNCHANGED diskVars
    /\ UNCHANGED loopVars
    /\ UNCHANGED fmtVars

\* git_remote.download(&[branch_name], Some(&mut fetch_opts))? returns
download(m) ==
    /\ m \in active /\ mpc[m] = "download"
    /\ \E ok \in BOOLEAN :
          IF ok THEN Goto(m, "update_tips") ELSE Terminate(m, "fetch")
    /\ hist' = [hist EXCEPT ![m].downloads = @ \cup {idx[m]}]
    /\ download_output' = [download_output EXCEPT ![m] = <<>>]
    /\ UNCHANGED rand_delay
    /\ UNCHANGED cfgVars
    /\ UNCHANGED diskVars
    /\ UNCHANGED loopVars
    /\ UNCHANGED fmtVars

\* callbacks::get_default(..)?, git_remote.update_tips(..)?, then the next remote
update_tips(m) ==
    /\ m \in active /\ mpc[m] = "update_tips"
    /\ \E ok \in BOOLEAN :
          IF ~ok THEN Terminate(m, "fetch") /\ UNCHANGED hist
          ELSE /\ idx' = [idx EXCEPT ![m] = @ + 1]
               /\ mpc' = [mpc EXCEPT ![m] = NextRemote(m)]
               /\ hist' = [hist EXCEPT ![m].tips = @ \cup {idx[m]}]
               /\ UNCHANGED <<ticks, remoteQ, handed, local_branch_oid, remote_oids,
                              remote_messages, msg_clone, compared, exit, termAt>>
    /\ UNCHANGED rand_delay
    /\ UNCHANGED cfgVars
    /\ UNCHANGED diskVars
    /\ UNCHANGED loopVars
    /\ UNCHANGED cbVars
    /\ UNCHANGED fmtVars

\* local_branch_oid = vec![get_oid_by_spec(&repo, branch_name)?]
resolve_local(m) ==
    /\ m \in active /\ mpc[m] = "resolve_local"
    /\ \E ok \in BOOLEAN, oid \in oidSet[local_spec(branch_name(m))] :
          IF ~ok THEN Terminate(m, "resolve")
          ELSE /\ local_branch_oid' = [local_branch_oid EXCEPT ![m] = <<oid>>]
               /\ mpc' = [mpc EXCEPT ![m] = "resolve_remotes"]
               /\ UNCHANGED <<ticks, remoteQ, handed, idx, remote_oids,
                              remote_messages, msg_clone, compared, exit, termAt>>
    /\ UNCHANGED <<rand_delay, hist>>
    /\ UNCHANGED cfgVars
    /\ UNCHANGED diskVars
    /\ UNCHANGED loopVars
    /\ UNCHANGED cbVars
    /\ UNCHANGED fmtVars

\* remote_oids: get_oid_by_spec(&repo, &remote_name).expect("") for every
\* remote of the list, collected into a HashMap
resolve_remotes(m) ==
    /\ m \in active /\ mpc[m] = "resolve_remotes"
    /\ \E ok \in BOOLEAN,
          oids \in {f \in [RemoteKeys(m) -> Oids] : \A key \in RemoteKeys(m) : f[key] \in oidSet[key]} :
          IF ~ok THEN Terminate(m, "panic")
          ELSE /\ remote_oids' = [remote_oids EXCEPT ![m] = oids]
               /\ mpc' = [mpc EXCEPT ![m] = IF RemoteKeys(m) = {} THEN "publish" ELSE "compare"]
               /\ UNCHANGED <<ticks, remoteQ, handed, idx, local_branch_oid,
                              remote_messages, msg_clone, compared, exit, termAt>>
    /\ UNCHANGED <<rand_delay, hist>>
    /\ UNCHANGED cfgVars
    /\ UNCHANGED diskVars
    /\ UNCHANGED loopVars
    /\ UNCHANGED cbVars
    /\ UNCHANGED fmtVars

\* one round of the loop over remote_oids.iter(), in the order the HashMap
\* gives: graph_ahead_behind(..)?, set_category, remote_messages.insert
compare(m) ==
    /\ m \in active /\ mpc[m] = "compare"
    /\ \E key \in DOMAIN remote_oids[m] \ DOMAIN remote_messages[m],
          ok \in BOOLEAN, reread \in oidSet[local_spec(branch_name(m))] :
          LET local_oid == LocalOid(m, reread)
              remote_oid == remote_oids[m][key]
              ab == graph_ahead_behind(local_oid, remote_oid)
          IN IF ~ok THEN Terminate(m, "ahead_behind")
             ELSE /\ msg_clone' = [msg_clone EXCEPT ![m].category = CategoryFor(ab[1], ab[2])]
                  /\ remote_messages' = [remote_messages EXCEPT ![m] =
                                            @ @@ (key :> RemoteMessage(key, ab[1], ab[2]))]
                  /\ compared' = [compared EXCEPT ![m] = @ @@ (key :> <<local_oid, remote_oid>>)]
                  /\ mpc' = [mpc EXCEPT ![m] =
                                IF DOMAIN remote_oids[m] \ DOMAIN remote_messages[m] = {key}
                                THEN "publish" ELSE "compare"]
                  /\ UNCHANGED <<ticks, remoteQ, handed, idx, local_branch_oid,
                                 remote_oids, exit, termAt>>
    /\ UNCHANGED <<rand_delay, hist>>
    /\ UNCHANGED cfgVars
    /\ UNCHANGED diskVars
    /\ UNCHANGED loopVars
    /\ UNCHANGED cbVars
    /\ UNCHANGED fmtVars

\* msg_clone.set_messages(messages); config.remote_handle().spawn(..)
publish(m) ==
    /\ m \in active /\ mpc[m] = "publish"
    /\ RemoteSpawnReady(remoteQ)
    /\ remoteQ' = RemoteSpawn(remoteQ, EventOf(m))
    /\ handed' = Append(handed, Msg(m, ticks[m] + 1))
    /\ ticks' = [ticks EXCEPT ![m] = @ + 1]
    /\ mpc' = [mpc EXCEPT ![m] = "sleep"]
    /\ DropLocals(m)
    /\ UNCHANGED <<exit, termAt>>
    /\ UNCHANGED <<rand_delay, hist>>
    /\ UNCHANGED cfgVars
    /\ UNCHANGED diskVars
    /\ UNCHANGED loopVars
    /\ UNCHANGED cbVars
    /\ UNCHANGED fmtVars

\* thread::sleep(Duration::from_millis(int)), then round the loop
sleep(m) ==
    /\ m \in active /\ mpc[m] = "sleep"
    /\ Goto(m, LoopHead)
    /\ hist' = [hist EXCEPT ![m].slept = <<interval[m]>>]
    /\ UNCHANGED rand_delay
    /\ UNCHANGED cfgVars
    /\ UNCHANGED diskVars
    /\ UNCHANGED loopVars
    /\ UNCHANGED cbVars
    /\ UNCHANGED fmtVars

NextMonitor ==
    \/ \E m \in Monitors : interval_to_ms(m)
    \/ \E m \in Monitors : startup_delay(m)
    \/ \E m \in Monitors : discover_or_clone(m)
    \/ \E m \in Monitors : repository_discover(m)
    \/ \E m \in Monitors : clone(m)
    \/ \E m \in Monitors : check_remotes(m)
    \/ \E m \in Monitors : tick_start(m)
    \/ \E m \in Monitors : connect_auth(m)
    \/ \E m \in Monitors : list(m)
    \/ \E m \in Monitors : transfer_progress(m)
    \/ \E m \in Monitors : download(m)
    \/ \E m \in Monitors : update_tips(m)
    \/ \E m \in Monitors : resolve_local(m)
    \/ \E m \in Monitors : resolve_remotes(m)
    \/ \E m \in Monitors : compare(m)
    \/ \E m \in Monitors : publish(m)
    \/ \E m \in Monitors : sleep(m)

\* one thread, any remote list, refs anywhere in the commit universe
InitTick ==
    /\ LoopInit
    /\ BranchInit
    /\ fmt = <<>>
    /\ OneRepository
    /\ active = {"m1"}
    /\ mpc = [m \in Monitors |-> IF m = "m1" THEN "start" ELSE "idle"]
    /\ oidSet = [ref \in Refs |-> Oids]
    /\ interval = [m \in Monitors |-> 2]
    /\ branch_map = [m \in Monitors |-> <<branch_name(m)>>]
    /\ tickBound = MaxTicks
    /\ \E l \in RemoteLists : remotesOf = [m \in Monitors |-> IF m = "m1" THEN l ELSE <<>>]

SpecTick == InitTick /\ [][NextMonitor]_vars

\* two threads on two branches of one repository, all refs at the base commit
InitSiblings ==
    /\ LoopInit
    /\ BranchInit
    /\ fmt = <<>>
    /\ OneRepository
    /\ active = Monitors
    /\ mpc = [m \in Monitors |-> "start"]
    /\ oidSet = [ref \in Refs |-> {{}}]
    /\ interval = [m \in Monitors |-> 2]
    /\ branch_map = [m \in Monitors |-> <<branch_name(m)>>]
    /\ tickBound = MaxSiblingTicks
    /\ remotesOf = [m \in Monitors |-> IF m = "m1" THEN <<"origin", "upstream">> ELSE <<"origin">>]

SpecSiblings == InitSiblings /\ [][NextMonitor]_vars

\* ---------------------------------------------------------------- claims
\* everything connection c has taken from the hub so far, oldest first: what
\* it wrote, what it is writing, what is still in its queue
received(c) == written[c] \o wr[c] \o queue[c]

\* the position of x in a sequence that holds it once
PosIn(seq, x) == CHOOSE i \in 1..Len(seq) : seq[i] = x

\* every registered sender has a live receiver: unbounded_send cannot fail on
\* a sender rx_fut finds in the registry
RegisteredReceiversOpen == \A c \in Registered : rxOpen[c]

\* C1: a connection that is registered has received, since it was registered,
\* exactly one copy of every message the hub fanned out, in fan-out order.
C1_ExactlyOneCopyInOrder ==
    \A c \in Registered :
        received(c) = SubSeq(fanned, regAt[c] + 1, Len(fanned))

\* C1 witness: two registered connections hold the same two messages.
C1_Witness ==
    /\ Cardinality(Registered) >= 2
    /\ \A c \in Registered : Len(received(c)) >= 2

\* C2 as stated: a connection receives no message that a monitor thread had
\* handed off before the connection was registered.
C2_NothingHandedOffBeforeRegistration ==
    \A c \in ConnIds : rxOpen[c] =>
        \A i \in 1..Len(received(c)) :
            PosIn(handed, decode(received(c)[i])) > handedAt[c]

\* C2 amended: a connection receives no message that the hub had fanned out
\* before the connection was registered (nothing is replayed).
C2_NothingFannedBeforeRegistration ==
    \A c \in ConnIds : rxOpen[c] =>
        \A i \in 1..Len(received(c)) :
            PosIn(fanned, received(c)[i]) > regAt[c]

\* C2 witness: a connection registered after a fan-out has received a message.
C2_Witness ==
    \E c \in ConnIds : rxOpen[c] /\ regAt[c] >= 1 /\ Len(received(c)) >= 1

\* C3: the step in which a connection's socket write fails leaves the registry
\* entry of every other connection alone.
C3_WriteFailureTouchesNoOther ==
    [][\A c \in ConnIds :
         (rxOpen[c] /\ ~rxOpen'[c] /\ wr[c] # <<>>) =>
             \A a \in Addrs :
                 connections[a] \notin {NoConn, c} => connections'[a] = connections[a]]_vars

\* C5: the hub fans messages out in the order they entered the merge channel,
\* and every connection receives the messages of one monitor thread in the
\* order the thread produced them.
C5_FanoutInArrivalOrder ==
    /\ Len(fanned) + Len(mergeQ) = Len(arrived)
    /\ \A i \in 1..Len(fanned) : fanned[i] = arrived[i]
    /\ \A c \in ConnIds : rxOpen[c] =>
          \A i, j \in 1..Len(received(c)) :
              (i < j /\ decode(received(c)[i]).repo = decode(received(c)[j]).repo)
                  => decode(received(c)[i]).seq < decode(received(c)[j]).seq

\* C5 witness: a connection has received two messages of one monitor thread.
C5_Witness ==
    \E c \in ConnIds : rxOpen[c] /\
        \E i, j \in 1..Len(received(c)) :
            i < j /\ decode(received(c)[i]).repo = decode(received(c)[j]).repo

NextStartup ==
    \/ \E m \in Monitors : interval_to_ms(m)
    \/ \E m \in Monitors : startup_delay(m)
    \/ \E m \in Monitors : discover_or_clone(m)
    \/ \E m \in Monitors : repository_discover(m)
    \/ \E m \in Monitors : clone(m)
    \/ \E m \in Monitors : check_remotes(m)

InitStartup ==
    /\ LoopInit
    /\ BranchInit
    /\ fmt = <<>>
    /\ \E l \in RepoRemoteLists :
          repo_config = [m \in Monitors |-> [basedir |-> "b1", repo |-> "R", remotes |-> l]]
    /\ cwd = "start"
    /\ repos \in {{}, {<<"b1", "R">>}}
    /\ active = {"m1"}
    /\ mpc = [m \in Monitors |-> IF m = "m1" THEN "start" ELSE "idle"]
    /\ oidSet = [ref \in Refs |-> {{}}]
    /\ \E i \in 0..MaxInterval : interval = [m \in Monitors |-> i]
    /\ branch_map = [m \in Monitors |-> <<branch_name(m)>>]
    /\ tickBound = 0
    /\ remotesOf = [m \in Monitors |-> <<"origin">>]

SpecStartup == InitStartup /\ [][NextStartup]_vars

\* one thread on a repository nobody commits to: every ref of its branch
\* stays at the commit it is at when the thread starts
InitIdle ==
    /\ LoopInit
    /\ BranchInit
    /\ fmt = <<>>
    /\ OneRepository
    /\ active = {"m1"}
    /\ mpc = [m \in Monitors |-> IF m = "m1" THEN "start" ELSE "idle"]
    /\ \E at \in [{ref \in Refs : ref[Len(ref)] = branch_name("m1")} -> Oids] :
          oidSet = [ref \in Refs |-> IF ref \in DOMAIN at THEN {at[ref]} ELSE {{}}]
    /\ interval = [m \in Monitors |-> 2]
    /\ branch_map = [m \in Monitors |-> <<branch_name(m)>>]
    /\ tickBound = MaxIdleTicks
    /\ remotesOf = [m \in Monitors |-> IF m = "m1" THEN <<"origin", "upstream">> ELSE <<>>]

SpecIdle == InitIdle /\ [][NextMonitor]_vars


\* -------------------------- the formatting functions of callbacks.rs alone
\* to_percent is called with every pair of counts up to MaxObjects
MaxObjects == 50

\* the limbs a byte count is built from in the calls of bytes_to_string:
\* the ends of the range, its middle, and 1
LimbValues == {0, 1, Radix \div 2, Radix - 1}

\* the first limb of a count that fills all UsizeLimbs limbs (below 2^4:
\* a usize has 64 = 6 * 10 + 4 binary digits)
TopLimbs == {1, 15}

\* the byte counts bytes_to_string is called with: usize values up to
\* usize::max_value()
ByteInputs ==
    {<<>>} \cup
    {s \in UNION {[1..n -> LimbValues \cup TopLimbs] : n \in 1..UsizeLimbs} :
        /\ s[1] # 0
        /\ \A i \in 2..Len(s) : s[i] \in LimbValues
        /\ s[1] \in (IF Len(s) = UsizeLimbs THEN TopLimbs ELSE LimbValues)}

\* a call that has not returned yet
Call(fn, args) == [fn |-> fn, args |-> args, ret |-> <<>>]

Calling(fn) == fmt # <<>> /\ fmt.fn = fn /\ fmt.ret = <<>>

Returned(fn) == fmt # <<>> /\ fmt.fn = fn /\ fmt.ret # <<>>

\* nothing of run() or monitor() moves while a formatting function runs
FormatOnly ==
    /\ UNCHANGED <<mpc, ticks, remoteQ, handed>>
    /\ UNCHANGED <<rand_delay, hist, idx, local_branch_oid, remote_oids,
                   remote_messages, msg_clone, compared, exit, termAt>>
    /\ UNCHANGED cfgVars
    /\ UNCHANGED diskVars
    /\ UNCHANGED loopVars
    /\ UNCHANGED cbVars

call_to_percent ==
    /\ Calling("to_percent")
    /\ fmt' = [fmt EXCEPT !.ret = <<to_percent(fmt.args[1], fmt.args[2])>>]
    /\ FormatOnly

call_bytes_to_string ==
    /\ Calling("bytes_to_string")
    /\ fmt' = [fmt EXCEPT !.ret = <<bytes_to_string(fmt.args[1])>>]
    /\ FormatOnly

NextFormat ==
    \/ call_to_percent
    \/ call_bytes_to_string

InitFormat ==
    /\ LoopInit
    /\ NoBranchThreads
    /\ mpc = [m \in Monitors |-> "idle"]
    /\ active = {}
    /\ oidSet = <<>>
    /\ interval = <<>>
    /\ branch_map = [m \in Monitors |-> <<"main">>]
    /\ tickBound = 0
    /\ remotesOf = <<>>
    /\ fmt \in {Call("to_percent", <<num_pre, dem_pre>>) :
                   num_pre \in 0..MaxObjects, dem_pre \in 0..MaxObjects}
               \cup {Call("bytes_to_string", <<bytes_pre>>) : bytes_pre \in ByteInputs}

SpecFormat == InitFormat /\ [][NextFormat]_vars


\* ---------------------------- two repositories starting at the same time
\* the startup of two threads of monitor() whose repositories have different
\* base directories; either repository may be on disk already
TwoRepositories ==
    /\ repo_config = [m \in Monitors |->
                         [basedir |-> IF m = "m1" THEN "b1" ELSE "b2",
                          repo |-> IF m = "m1" THEN "R1" ELSE "R2",
                          remotes |-> <<Remote("origin", "u1"), Remote("upstream", "u2")>>]]
    /\ cwd = "start"
    /\ repos \in SUBSET {<<"b1", "R1">>, <<"b2", "R2">>}

InitOpen ==
    /\ LoopInit
    /\ BranchInit
    /\ fmt = <<>>
    /\ TwoRepositories
    /\ active = Monitors
    /\ mpc = [m \in Monitors |-> "start"]
    /\ oidSet = [ref \in Refs |-> {{}}]
    /\ interval = [m \in Monitors |-> 2]
    /\ branch_map = [m \in Monitors |-> <<branch_name(m)>>]
    /\ tickBound = 0
    /\ remotesOf = [m \in Monitors |-> <<"origin">>]

SpecOpen == InitOpen /\ [][NextStartup]_vars

\* ------------------------------------------------ claims on monitor()

\* some step of thread x
MonitorStep(x) ==
    \/ interval_to_ms(x) \/ startup_delay(x) \/ discover_or_clone(x)
    \/ repository_discover(x) \/ clone(x)
    \/ check_remotes(x) \/ tick_start(x) \/ connect_auth(x) \/ list(x)
    \/ transfer_progress(x) \/ download(x) \/ update_tips(x) \/ resolve_local(x) \/ resolve_remotes(x)
    \/ compare(x) \/ publish(x) \/ sleep(x)

\* the hand-offs of thread m among handed[from+1 .. ]
HandedAfter(m, from) == {i \in (from + 1)..Len(handed) : handed[i].repo = m}

\* C7: when the scan of a remote's advertised refs does not find the tracked
\* branch, that thread ends with the error "invalid branch" and the step
\* changes nothing of any sibling: its position, its exit status and its tick
\* count stay as they were; and while a thread has ended that way, every
\* sibling that has not itself ended still has a step to take (until the
\* model's tick bound), so it goes on polling and publishing.
C7_AbsentBranchStopsOnlyThatTask ==
    /\ [][\A m \in Monitors :
             (exit[m] = "running" /\ exit'[m] = "invalid branch")
             => /\ mpc[m] = "list" /\ mpc'[m] = "terminated"
                /\ \A x \in Monitors \ {m} :
                      mpc'[x] = mpc[x] /\ exit'[x] = exit[x] /\ ticks'[x] = ticks[x]]_vars
    /\ [](\A m \in Monitors : \A x \in Monitors \ {m} :
             (exit[m] = "invalid branch" /\ exit[x] = "running"
              /\ ~(mpc[x] = "tick" /\ ticks[x] >= tickBound))
             => ENABLED MonitorStep(x))

\* C7 witness: m1 ended on an absent branch and, after that, its sibling m2
\* (another branch of the same repository) ran a whole tick and published.
C7_Witness ==
    /\ exit["m1"] = "invalid branch" /\ mpc["m1"] = "terminated"
    /\ repo_name("m1") = repo_name("m2") /\ branch_name("m1") # branch_name("m2")
    /\ exit["m2"] = "running" /\ mpc["m2"] = "sleep"
    /\ HandedAfter("m2", termAt["m1"]) # {}
    /\ remoteQ[Len(remoteQ)].uuid = <<"m2", ticks["m2"]>>

\* what ends a thread according to the original wording of C8
TickFatal == {"fetch", "invalid branch"}

\* every way monitor() ends: the `?` of the startup calls, of the fetch calls,
\* of the local ref, of graph_ahead_behind, the explicit return, the expect
FatalCauses == {"interval", "repository", "fetch", "invalid branch", "resolve",
                "panic", "ahead_behind"}

\* C8 (as stated): a thread is terminated only through a fetch failure or an
\* invalid branch name.
C8_TerminatedOnlyByFetchOrInvalidBranch ==
    \A m \in Monitors : mpc[m] = "terminated" => exit[m] \in TickFatal

\* C8 (amended): a thread is terminated only through an error of monitor():
\* a startup failure (interval, open or clone, remotes), or in a tick a fetch
\* failure, an invalid branch name, a ref that does not resolve or a failed
\* ahead/behind computation. The failing tick is not retried (a thread that
\* hit the error is terminated at once), a terminated thread stays terminated
\* with its tick count frozen, and nothing it handed off is later than its
\* termination.
C8_TerminatedOnlyByErrorAndForGood ==
    /\ [](\A m \in Monitors :
             /\ mpc[m] = "terminated" <=> exit[m] # "running"
             /\ mpc[m] = "terminated" => exit[m] \in FatalCauses
             /\ mpc[m] = "terminated" => HandedAfter(m, termAt[m]) = {})
    /\ [][\A m \in Monitors :
             mpc[m] = "terminated"
             => mpc'[m] = "terminated" /\ ticks'[m] = ticks[m] /\ exit'[m] = exit[m]]_vars

\* C8 witness: m1 published once, then failed a fetch in its second tick and
\* is terminated, and the sibling has handed off an Event since.
C8_Witness ==
    /\ mpc["m1"] = "terminated" /\ exit["m1"] = "fetch"
    /\ ticks["m1"] = 1 /\ HandedAfter("m1", 0) # {}
    /\ HandedAfter("m2", termAt["m1"]) # {}

\* a thread whose Event of this tick is complete
EventReady(m) == m \in active /\ mpc[m] = "publish"

\* the remote a key of the Event stands for: the text before the '/'
RemoteOfKey(key) == key[1]

\* the remote names of the branch's remote list
ListedRemotes(m) == {remotesOf[m][i] : i \in 1..Len(remotesOf[m])}

\* C9: the Event of a tick has exactly one entry per remote name of the
\* branch's remote list (its key, "<remote>/<branch>", names the remote), and
\* every entry was computed against the one local commit id the tick resolved
\* before the first comparison.
C9_OneEntryPerRemoteSameLocalOid ==
    \A m \in Monitors :
       /\ mpc[m] \in {"compare", "publish"}
          => /\ Len(local_branch_oid[m]) = 1
             /\ \A key \in DOMAIN compared[m] : compared[m][key][1] = local_branch_oid[m][1]
       /\ EventReady(m)
          => LET entries == EventOf(m).messages[branch_name(m)]
             IN /\ {RemoteOfKey(key) : key \in DOMAIN entries} = ListedRemotes(m)
                /\ Cardinality(DOMAIN entries) = Cardinality(ListedRemotes(m))
                /\ \A key \in DOMAIN entries :
                      /\ entries[key].remote = key
                      /\ key[3] = branch_name(m)
                /\ DOMAIN compared[m] = DOMAIN entries

\* C9 witness: an Event with two entries, for a local commit that is not the
\* base and two remotes at different commits, both compared with that local
\* commit.
C9_Witness ==
    /\ EventReady("m1")
    /\ remotesOf["m1"] = <<"origin", "upstream">>
    /\ Cardinality(DOMAIN remote_messages["m1"]) = 2
    /\ local_branch_oid["m1"][1] # {}
    /\ remote_oids["m1"][remote_name("origin", "main")]
          # remote_oids["m1"][remote_name("upstream", "main")]
    /\ \A key \in DOMAIN compared["m1"] : compared["m1"][key][1] = local_branch_oid["m1"][1]

\* the per-remote result an entry of the Event states
IsUpToDate(e) == e.text = "Your branch is up to date with"
IsAhead(e, n) == e.text = "Your branch is ahead of" /\ e.n = n
IsBehind(e, n) == e.text = "Your branch is behind" /\ e.n = n

ReportsAhead(e, n) == IsAhead(e, n)

\* the entry of the Event states the count of commits only the remote has
ReportsBehind(e, n) == IsBehind(e, n)

\* C11: when a comparison yields ahead > 0 and behind > 0, the entry of that
\* remote in the Event reports both counts.
C11_DivergedReportsBothCounts ==
    \A m \in Monitors :
       EventReady(m)
       => \A key \in DOMAIN remote_oids[m] :
             LET e == EventOf(m).messages[branch_name(m)][key]
                 ab == graph_ahead_behind(local_branch_oid[m][1], remote_oids[m][key])
             IN (ab[1] > 0 /\ ab[2] > 0)
                => ReportsAhead(e, ab[1]) /\ ReportsBehind(e, ab[2])


\* C12 (as stated): the startup delay drawn for interval I is in [0, I/5).
C12_DelayBelowOneFifth ==
    \A m \in Monitors :
       rand_delay[m] # <<>>
       => rand_delay[m][1] >= 0 /\ rand_delay[m][1] * 5 < interval[m]

\* C12 (amended): the startup delay drawn for interval I is in [0, 4I/5),
\* the quotient taken in integers: never negative and never 4I/5 or more.
C12_DelayBelowFourFifths ==
    \A m \in Monitors :
       rand_delay[m] # <<>>
       => rand_delay[m][1] >= 0 /\ rand_delay[m][1] < (interval[m] * 4) \div 5

\* C12 witness: interval 5, and the thread slept a delay of 3, the largest
\* below 4: more than a fifth of the interval.
C12_Witness ==
    /\ interval["m1"] = 5
    /\ rand_delay["m1"] = <<3>>
    /\ hist["m1"].delays = 1
    /\ mpc["m1"] = "discover"


\* C13: once the spawn loop has run, there are as many threads as the
\* configuration has (repository, branch) pairs, and the pairs the threads
\* work on are exactly the pairs of the configuration.
C13_OneTaskPerPair ==
    CoreRunning
    => /\ Cardinality(Spawned) = Cardinality(Pairs)
       /\ {MonitoredPair(m) : m \in Spawned} = Pairs


\* the drain loop of connection c has ended and its handler has run
Closed(c) == c \in Accepted /\ ~rxOpen[c]

\* C14: the drain loop of a connection ends only when its sender is gone from
\* the registry with the queue drained, or when a write fails; the step that
\* ends it leaves the connection out of the registry, and from then on it is
\* never in the registry and nothing is enqueued for it.
C14_DrainUntilDroppedThenDeregistered ==
    /\ [](\A c \in ConnIds :
             Closed(c) => c \notin Registered /\ queue[c] = <<>> /\ wr[c] = <<>>)
    /\ [][\A c \in ConnIds :
             /\ (rxOpen[c] /\ ~rxOpen'[c])
                => /\ \/ c \notin Registered /\ queue[c] = <<>> /\ wr[c] = <<>>
                      \/ wr[c] # <<>> /\ sock[c] = "broken"
                   /\ c \notin Registered'
             /\ Closed(c) => Closed(c)' /\ queue'[c] = <<>>]_vars

\* C14 witness: connection 1 wrote nothing of the first Event because the
\* write failed, its loop ended, it is out of the registry, and the hub has
\* fanned a second Event out to connection 2 since connection 2 registered.
C14_Witness ==
    /\ Closed(1) /\ sock[1] = "closed" /\ 1 \notin Registered
    /\ 2 \in Registered /\ regAt[2] = 1
    /\ Len(fanned) = 2 /\ received(2) = <<fanned[2]>>
    /\ queue[1] = <<>>


\* the commit a ref stays at, where the run leaves it no other
PinnedOid(ref) == CHOOSE oid \in oidSet[ref] : TRUE

\* the Events thread m handed off, oldest first (nothing takes them off remoteQ
\* while only the monitor() threads run)
EventsOf(m) == SelectSeq(remoteQ, LAMBDA ev : ev.uuid[1] = m)

\* C15: with no new commit on the local or any remote side, every two ticks
\* of a thread report the same per-remote results, and a remote whose tip
\* equals the local tip is reported up to date in each of them.
C15_IdleTicksAgree ==
    \A m \in Monitors :
       LET evs == EventsOf(m)
           b == branch_name(m)
       IN /\ \A i \in 1..Len(evs) : \A j \in 1..Len(evs) : evs[i].messages = evs[j].messages
          /\ \A i \in 1..Len(evs) : \A key \in DOMAIN evs[i].messages[b] :
                PinnedOid(key) = PinnedOid(local_spec(b))
                => IsUpToDate(evs[i].messages[b][key])

\* C15 witness: two ticks of m1 published; origin/main equals the local tip,
\* which is not the base commit, and is up to date in both; upstream/main
\* differs and has the same other result in both.
C15_Witness ==
    /\ Len(EventsOf("m1")) = 2
    /\ EventsOf("m1")[1].uuid # EventsOf("m1")[2].uuid
    /\ PinnedOid(local_spec("main")) # {}
    /\ PinnedOid(remote_name("origin", "main")) = PinnedOid(local_spec("main"))
    /\ PinnedOid(remote_name("upstream", "main")) # PinnedOid(local_spec("main"))
    /\ \A i \in 1..2 :
          /\ IsUpToDate(EventsOf("m1")[i].messages["main"][remote_name("origin", "main")])
          /\ ~IsUpToDate(EventsOf("m1")[i].messages["main"][remote_name("upstream", "main")])


\* the ids of the Events handed to the event loop so far
HandedUuids == {remoteQ[i].uuid : i \in 1..Len(remoteQ)}

\* thread m ends a tick without error in this step
TickCompletes(m) == mpc[m] = "publish" /\ mpc'[m] = "sleep"

\* C16: a step that completes a tick hands exactly one Event to the event
\* loop, carrying the id generated at the start of that tick, and no other
\* step hands anything over; the ids of all Events handed over are pairwise
\* different, and the id of a tick still running is on none of them; a step
\* that ends the thread with an error hands nothing over, so a tick that
\* fails has no Event.
C16_OneFreshEventPerCompletedTick ==
    /\ [](/\ \A i \in 1..Len(remoteQ) : \A j \in 1..Len(remoteQ) :
                i # j => remoteQ[i].uuid # remoteQ[j].uuid
          /\ \A m \in Monitors :
                (m \in active /\ msg_clone[m] # <<>>) => msg_clone[m].uuid \notin HandedUuids)
    /\ [][/\ \A m \in Monitors :
                TickCompletes(m)
                => /\ Len(remoteQ') = Len(remoteQ) + 1
                   /\ SubSeq(remoteQ', 1, Len(remoteQ)) = remoteQ
                   /\ remoteQ'[Len(remoteQ')].uuid = msg_clone[m].uuid
          /\ (\A m \in Monitors : ~TickCompletes(m)) => remoteQ' = remoteQ
          /\ \A m \in Monitors :
                (exit[m] = "running" /\ exit'[m] # "running") => remoteQ' = remoteQ]_vars

\* C16 witness: m1 completed its first tick, whose Event is the only one
\* handed over, and failed the download from the second remote in its second
\* tick, which has no Event.
C16_Witness ==
    /\ Len(remoteQ) = 1 /\ remoteQ[1].uuid = new_v4("m1", 1)
    /\ exit["m1"] = "fetch" /\ ticks["m1"] = 1
    /\ hist["m1"].downloads = {1, 2} /\ hist["m1"].tips = {1}


\* the step of a tick a position of the loop belongs to: 0 loop head, 1 fetch
\* of the remotes, 2 local tip, 3 remote tips, 4 diff, 5 publish, 6 sleep
Stage(pc) ==
    CASE pc = "tick" -> 0
      [] pc \in {"connect", "list", "download", "update_tips"} -> 1
      [] pc = "resolve_local" -> 2
      [] pc = "resolve_remotes" -> 3
      [] pc = "compare" -> 4
      [] pc = "publish" -> 5
      [] pc = "sleep" -> 6
      [] OTHER -> 7

InTick(m) == m \in active /\ Stage(mpc[m]) < 7

\* the remotes of the list, by position
RemoteIdx(m) == 1..Len(remotesOf[m])

\* C17: a thread moves through the steps of a tick in the order fetch, local
\* tip, remote tips, diff, publish, sleep, one step at a time, and back to
\* the loop head only from the sleep, which lasts the configured interval;
\* the local tip is resolved only when every remote of the list is fetched,
\* the remote tips only after the local tip, every remote is diffed before
\* the publish, and nothing is handed over before that.
C17_TickStepsInOrder ==
    /\ [](\A m \in Monitors :
             InTick(m)
             => /\ Stage(mpc[m]) >= 2 => hist[m].downloads = RemoteIdx(m) /\ hist[m].tips = RemoteIdx(m)
                /\ Stage(mpc[m]) \in 1..2 => local_branch_oid[m] = <<>>
                /\ Stage(mpc[m]) \in 3..5 => Len(local_branch_oid[m]) = 1
                /\ Stage(mpc[m]) \in 1..3 => remote_oids[m] = <<>> /\ remote_messages[m] = <<>>
                /\ Stage(mpc[m]) \in 4..5 => DOMAIN remote_oids[m] = RemoteKeys(m)
                /\ Stage(mpc[m]) = 5 => DOMAIN remote_messages[m] = RemoteKeys(m)
                /\ Stage(mpc[m]) \in 1..5 => new_v4(m, ticks[m] + 1) \notin HandedUuids
                /\ (mpc[m] = "tick" /\ ticks[m] > 0) => hist[m].slept = <<interval[m]>>)
    /\ [][\A m \in Monitors :
             (InTick(m) /\ mpc'[m] # mpc[m] /\ Stage(mpc'[m]) < 7)
             => \/ Stage(mpc'[m]) = Stage(mpc[m])
                \/ Stage(mpc'[m]) = Stage(mpc[m]) + 1
                \/ Stage(mpc[m]) = 6 /\ Stage(mpc'[m]) = 0]_vars

\* C17 witness: m1 went through a whole first tick and its sleep, and in its
\* second tick has fetched both remotes, resolved and diffed, and is about to
\* publish.
C17_Witness ==
    /\ ticks["m1"] = 1 /\ Len(EventsOf("m1")) = 1
    /\ mpc["m1"] = "publish"
    /\ hist["m1"].tips = {1, 2}
    /\ DOMAIN remote_messages["m1"] = RemoteKeys("m1")


\* the sequence numbers of the messages of thread m in a sequence of messages
SeqsOf(m, msgs) ==
    LET own == SelectSeq(msgs, LAMBDA msg : msg.repo = m)
    IN [i \in 1..Len(own) |-> own[i].seq]

\* the messages waiting in the merge channel, decoded
MergeQMsgs == [i \in 1..Len(mergeQ) |-> decode(mergeQ[i][2])]

\* the messages the hub's merge point has received, decoded
FannedMsgs == [i \in 1..Len(fanned) |-> decode(fanned[i])]

\* the messages of thread m handed off and not yet received by the merge
\* point, oldest first: those in the merge channel, then those still in the
\* core's spawn queue
InFlight(m) == SeqsOf(m, MergeQMsgs) \o SeqsOf(m, remoteQ)

\* C18 (as stated): at most one message of a thread is in flight.
C18_AtMostOneInFlight ==
    \A m \in Monitors : Len(InFlight(m)) <= 1

\* C18 (amended): a thread hands its next message off without waiting for the
\* one before, so several can be in flight; what the merge point has received
\* of a thread, followed by what is in flight of it, is always its messages
\* 1, 2, ... in the order it handed them off.
C18_InFlightInHandOffOrder ==
    \A m \in Monitors :
       SeqsOf(m, FannedMsgs) \o InFlight(m) = [k \in 1..ticks[m] |-> k]

\* C18 witness: two messages of m1 are in flight at once, the first already
\* in the merge channel and the second in the core's spawn queue.
C18_Witness ==
    /\ InFlight("m1") = <<1, 2>>
    /\ Len(mergeQ) = 1 /\ Len(remoteQ) = 1
    /\ fanned = <<>>


\* C19: in a tick, a download from a remote starts only after the scan of that
\* remote's advertised refs, and only when the scan saw the branch; tips are
\* updated only for a downloaded remote; a remote whose scan did not see the
\* branch is the last one the tick looked at: nothing was downloaded from it,
\* none of its refs was updated, and the thread has ended with the error
\* "invalid branch".
C19_PresenceCheckedBeforeDownload ==
    \A m \in Monitors :
       m \in active
       => LET listed == hist[m].listed
          IN /\ \A i \in hist[m].downloads : i <= Len(listed) /\ listed[i]
             /\ hist[m].tips \subseteq hist[m].downloads
             /\ mpc[m] \in {"download", "update_tips"}
                => idx[m] = Len(listed) /\ listed[idx[m]]
             /\ \A i \in 1..Len(listed) :
                   ~listed[i]
                   => /\ i = Len(listed)
                      /\ i \notin hist[m].downloads /\ i \notin hist[m].tips
                      /\ mpc[m] = "terminated" /\ exit[m] = "invalid branch"

\* C19 witness: origin advertised the branch and was downloaded and updated;
\* upstream did not: nothing was downloaded from it and the thread ended with
\* "invalid branch".
C19_Witness ==
    /\ remotesOf["m1"] = <<"origin", "upstream">>
    /\ hist["m1"].listed = <<TRUE, FALSE>>
    /\ hist["m1"].downloads = {1} /\ hist["m1"].tips = {1}
    /\ mpc["m1"] = "terminated" /\ exit["m1"] = "invalid branch"


\* thread m has begun its first tick
Polling(m) == m \in active /\ ((InTick(m) /\ mpc[m] # "tick") \/ ticks[m] > 0)

\* C20 (as stated): the repository is opened or cloned first, the startup
\* delay is slept after that, exactly once, the first tick comes after both,
\* and the repository is opened once.
C20_OpenThenDelayThenTick ==
    \A m \in Monitors :
       m \in active
       => /\ hist[m].delays >= 1 => hist[m].opens >= 1
          /\ Polling(m) => hist[m].delays = 1 /\ hist[m].opens = 1
          /\ hist[m].opens <= 1 /\ hist[m].delays <= 1

\* C20 (amended): the startup delay is slept first, exactly once, the
\* repository is opened or cloned after that, the first tick comes after
\* both, and the repository is opened once, whatever the number of ticks.
C20_DelayThenOpenThenTick ==
    \A m \in Monitors :
       m \in active
       => /\ hist[m].opens >= 1 => hist[m].delays = 1
          /\ Polling(m) => hist[m].delays = 1 /\ hist[m].opens = 1
          /\ hist[m].opens <= 1 /\ hist[m].delays <= 1

\* C20 witness: m1 is in its second tick, having slept the startup delay once
\* and opened the repository once.
C20_Witness ==
    /\ ticks["m1"] = 1 /\ mpc["m1"] = "connect"
    /\ rand_delay["m1"] # <<>>
    /\ hist["m1"].delays = 1 /\ hist["m1"].opens = 1



\* the failures C21 names, by the call that fails: the open or clone of the
\* repository at startup, the local ref, a remote ref, the ahead/behind call
C21Failure == [discover |-> "repository", repository_discover |-> "repository",
               clone |-> "repository", check_remotes |-> "repository",
               resolve_local |-> "resolve", resolve_remotes |-> "panic",
               compare |-> "ahead_behind"]

\* thread m fails in this step at one of the calls of C21Failure
C21Fails(m) ==
    /\ exit[m] = "running" /\ exit'[m] # "running"
    /\ mpc[m] \in DOMAIN C21Failure

C22_RegisterAddsDeregisterRemovesOwn ==
    [][/\ \A c \in ConnIds :
             (c \notin Accepted /\ c \in Accepted')
             => c \in Registered' /\ rxOpen'[c] /\ queue'[c] = <<>>
       /\ \A c \in ConnIds :
             (rxOpen[c] /\ ~rxOpen'[c])
             => IF c \in Registered
                THEN connections' = [connections EXCEPT ![addrOf[c]] = NoConn]
                ELSE connections' = connections]_vars


\* the write_all of connection c has begun and has not completed: its peer
\* does not take the bytes
Stalled(c) == c \in Accepted /\ rxOpen[c] /\ wr[c] # <<>> /\ sock[c] = "ok"

\* the addresses no live connection was accepted with
FreeAddrs == Addrs \ {addrOf[c] : c \in {x \in Accepted : rxOpen[x]}}

\* C23: while the write of one connection is pending, the server can accept
\* a connection from every other address (up to the model's connection bound)
\* and the hub can fan out the next Event of the merge channel; a connection
\* accepted meanwhile is registered with the pending write left as it is, and
\* an Event fanned out meanwhile is appended to the queue of every registered
\* connection whose receiver is alive, the stalled one's included.
C23_StalledWriteBlocksNeitherAcceptNorFanout ==
    /\ [](\A c \in ConnIds :
             Stalled(c)
             => /\ nextConn <= MaxConns => \A a \in FreeAddrs : ENABLED srv(a)
                /\ mergeQ # <<>> => ENABLED rx_fut)
    /\ [][\A c \in ConnIds :
             Stalled(c)
             => /\ nextConn' # nextConn
                   => nextConn \in Registered' /\ rxOpen'[nextConn] /\ wr'[c] = wr[c]
                /\ fanned' # fanned
                   => \A d \in Registered :
                         rxOpen[d] => queue'[d] = Append(queue[d], fanned'[Len(fanned')])]_vars

\* C23 witness: connection 1 has a write pending and an Event waiting behind
\* it; connection 2 was accepted after that write began and has been sent
\* the second Event, which connection 1 has queued too.
C23_Witness ==
    /\ Stalled(1) /\ Len(fanned) = 2
    /\ wr[1] = <<fanned[1]>> /\ queue[1] = <<fanned[2]>> /\ written[1] = <<>>
    /\ 2 \in Registered /\ regAt[2] = 1 /\ received(2) = <<fanned[2]>>


\* the urls of the remotes of that name in thread m's configuration
ConfiguredUrls(m, name) ==
    {repo_config[m].remotes[i].url :
        i \in {j \in 1..Len(repo_config[m].remotes) : repo_config[m].remotes[j].name = name}}

\* C24: when discovery finds the repository, discover_or_clone returns it
\* and clones nothing; a clone is tried only after discovery failed, and from
\* the url of a configured remote named "origin"; when discovery fails and no
\* remote is named "origin" the call returns an error with nothing cloned and
\* no repository returned; when the clone fails the call returns an error and
\* no repository; when the clone succeeds the cloned repository is returned.
C24_DiscoverElseCloneFromOrigin ==
    \A m \in active :
       LET h == hist[m]
       IN /\ h.discovered = <<TRUE>>
             => h.cloned = <<>> /\ h.opened # <<>> /\ h.opened[1] \in repos
          /\ h.cloned # <<>>
             => /\ h.discovered = <<FALSE>>
                /\ h.cloned[1].url \in ConfiguredUrls(m, "origin")
          /\ (h.discovered = <<FALSE>> /\ ConfiguredUrls(m, "origin") = {})
             => /\ h.cloned = <<>> /\ h.opened = <<>>
                /\ mpc[m] = "terminated" /\ exit[m] = "repository"
          /\ (h.cloned # <<>> /\ ~h.cloned[1].ok)
             => /\ h.opened = <<>>
                /\ mpc[m] = "terminated" /\ exit[m] = "repository"
          /\ (h.cloned # <<>> /\ h.cloned[1].ok)
             => h.opened # <<>> /\ h.opened[1] \in repos

\* C24 witness: nothing was on disk, the configuration lists "upstream"
\* before "origin", and the thread cloned from origin's url and went on with
\* the repository the clone returned.
C24_Witness ==
    /\ repo_config["m1"].remotes = <<Remote("upstream", "u2"), Remote("origin", "u1")>>
    /\ hist["m1"].discovered = <<FALSE>>
    /\ hist["m1"].cloned = <<[url |-> "u1", ok |-> TRUE]>>
    /\ hist["m1"].opened = <<<<"b1", "R">>>>
    /\ mpc["m1"] = "check_remotes"


\* C25: when a formatting function returns Err while the progress text is
\* built, the callback returns normally and the thread goes on: a thread on
\* whose progress report a formatting function failed is not ended by it.
C25_FormatErrorIsSwallowed ==
    \A m \in active :
       hist[m].format_error # <<>> => mpc[m] # "terminated" /\ exit[m] = "running"

\* the exact value of 100 * (0.limbs in base Radix), rounded down
RECURSIVE Hundredths(_)
Hundredths(limbs) ==
    IF limbs = <<>> THEN 0
    ELSE (Hundred * limbs[1] + Hundredths(Tail(limbs))) \div Radix

\* C26: to_percent(num, den) returns, for every den > 0, the decimal digits
\* of the integer part of 100 * num / den followed by "%", and returns an
\* error when den = 0.
C26_PercentIsIntegerPartOfQuotient ==
    Returned("to_percent") =>
       LET num == fmt.args[1]
           den == fmt.args[2]
           res == fmt.ret[1]
       IN IF den > 0
          THEN res.ok /\ res.text = Append(Digits((Hundred * num) \div den), "%")
          ELSE ~res.ok

\* C27: bytes_to_string(b) with b in [1024^k, 1024^(k+1)) (k = 6 for every
\* larger b) returns b / 1024^k rounded down to two decimals (no decimals for
\* k = 0) with the unit of k, and never an error.
C27_BytesRoundedDownInLargestUnit ==
    Returned("bytes_to_string") =>
       LET b == fmt.args[1]
           res == fmt.ret[1]
       IN /\ res.ok
          /\ res.text =
                IF Len(b) <= 1
                THEN Append(Digits(IF b = <<>> THEN 0 ELSE b[1]), UnitNames[1])
                ELSE Append(Fixed2(Hundred * b[1] + Hundredths(Tail(b))),
                            UnitNames[Len(b)])

\* C28: the end of a connection's drain loop removes no entry but that
\* connection's own: every other connection that is in the registry, also a
\* newer one accepted from the same peer address, is in the registry after the
\* step and so is still sent every Event.
C28_EndOfOlderKeepsNewerRegistered ==
    [][\A c \in ConnIds :
          (rxOpen[c] /\ ~rxOpen'[c])
          => \A d \in Registered \ {c} : d \in Registered' /\ d \in FanoutTargets']_vars

\* the place of thread m's repository: config.repo() under config.basedir()
OwnPath(m) == <<repo_config[m].basedir, repo_config[m].repo>>

\* C29: whatever the interleaving of the threads' startups, the repository a
\* thread's discover_or_clone returns (discovered or cloned) is the one under
\* that thread's own base directory, and a clone that succeeds has put the
\* repository there.
C29_OpensUnderOwnBasedir ==
    \A m \in active :
       /\ hist[m].opened # <<>> => hist[m].opened[1] = OwnPath(m)
       /\ (hist[m].cloned # <<>> /\ hist[m].cloned[1].ok) => hist[m].opened = <<OwnPath(m)>>

\* C30: the top-level category of a tick's Event depends on the tick's
\* per-remote results only: on a repository nobody commits to, where every
\* tick of a thread has the same remote list and the same (ahead, behind)
\* pair for every remote, every two Events of the thread that carry the same
\* per-remote entries carry the same category, whatever the order the
\* HashMap remote_oids was iterated in.
C30_CategoryIsFunctionOfResults ==
    \A m \in Monitors :
       LET evs == EventsOf(m)
       IN \A i \in 1..Len(evs) : \A j \in 1..Len(evs) :
             evs[i].messages = evs[j].messages => evs[i].category = evs[j].category

\* the bytes of a sequence of encoded messages, one after the other
RECURSIVE Concat(_)
Concat(msgs) == IF msgs = <<>> THEN <<>> ELSE Head(msgs) \o Concat(Tail(msgs))

\* s is the beginning of t
IsPrefix(s, t) == Len(s) <= Len(t) /\ SubSeq(t, 1, Len(s)) = s

\* C31: on every connection the bytes the socket has taken are the encoded
\* Events in the order they were enqueued (the order of the fan-outs since
\* the connection registered), each whole and once, followed by the first
\* bytes of the one being written; and the write of an Event begins only
\* when no write is in progress on that connection.
C31_WritesWholeInEnqueueOrder ==
    /\ [](\A c \in ConnIds : rxOpen[c] =>
             /\ IsPrefix(received(c), SubSeq(fanned, regAt[c] + 1, Len(fanned)))
             /\ wire[c] = Concat(written[c])
                          \o (IF wr[c] = <<>> THEN <<>> ELSE SubSeq(wr[c][1], 1, sent[c]))
             /\ \A i, j \in 1..Len(written[c]) : i # j => written[c][i] # written[c][j]
             /\ wr[c] = <<>> => sent[c] = 0)
    /\ [][\A c \in ConnIds :
             (wr'[c] # <<>> /\ wr'[c] # wr[c])
             => wr[c] = <<>> /\ queue[c] # <<>> /\ wr'[c] = <<Head(queue[c])>>]_vars

\* C31 witness: connection 1 wrote the first Event whole, partly in pieces,
\* and its socket has taken the first byte of the second one.
C31_Witness ==
    /\ rxOpen[1] /\ Len(fanned) = 2
    /\ written[1] = <<fanned[1]>> /\ wr[1] = <<fanned[2]>> /\ sent[1] = 1
    /\ wire[1] = fanned[1] \o <<fanned[2][1]>>

\* at least n messages were handed to the event loop / the n-th of them was
\* fanned out (hand-offs are fanned out in their order, C5)
Handed(n) == Len(handed) >= n

Fanned(n) == Len(fanned) >= n /\ fanned[n] = serialize(handed[n])

\* C32: with a fair event loop every message a monitor thread handed off is
\* eventually fanned out; the step that fans it out enqueues it on every
\* connection that is in the registry at that moment; and the fan-out loop
\* never ends: whenever the merge channel holds an item, rx_fut can take it.
C32_HandedEventuallyFannedOut ==
    /\ \A n \in 1..MaxMsgs : Handed(n) ~> Fanned(n)
    /\ [][Len(fanned') > Len(fanned)
          => \A c \in Registered : queue'[c] = Append(queue[c], fanned'[Len(fanned')])]_vars
    /\ [](mergeQ # <<>> => ENABLED rx_fut)

\* C32 witness: both messages handed off have been fanned out, the second one
\* to a registered connection while another connection's peer was gone.
C32_Witness ==
    /\ Len(handed) = 2 /\ \A n \in 1..2 : Fanned(n)
    /\ remoteQ = <<>> /\ mergeQ = <<>>
    /\ \E c \in Registered : received(c) = fanned
    /\ \E c \in Accepted : rxOpen[c] /\ sock[c] = "broken"

=============================================================================
